---- MODULE Spec2Model ----
(***************************************************************************)
(* Model of github.com/bouroo/go-time.                                     *)
(*                                                                         *)
(* Package internal: the EraCache (src/internal/era_cache.go), a sync.Map  *)
(* held in an atomic.Value, a doubly linked recency list and three         *)
(* counters, where Set, Clear, Stats and                                   *)
(* HitRate run under the mutex ec.mu and Get is lock-free; the             *)
(* StringReplacer (src/internal/replacer.go), the BuilderPool it takes its *)
(* builders from (src/internal/builder_pool.go) and the RegexPool          *)
(* (src/internal/regex_pool.go).                                           *)
(* Package gotime: Time.Year and Time.Format, which read and fill the      *)
(* global EraCache, replaceYearInFormatted, ClearEraCache, EraCacheStats,  *)
(* EraCacheHitRate and the era registry (RegisterEra,                      *)
(* RegisterEraWithOptions, GetEra) under erasMu.                           *)
(*                                                                         *)
(* Every method is modelled as the sequence of its shared-memory steps, a  *)
(* thread's position being pc[t] (cache), frame[t] (gotime, ReplaceAll,    *)
(* RegexPool) and rcall[t] (Replace, BuilderPool).  Spec runs the cache    *)
(* methods one at a time (a single caller), SpecAnySize does so on a cache *)
(* made with any argument, SpecConc interleaves the steps of all threads;  *)
(* SpecGotime interleaves callers of package gotime; SpecReplace and       *)
(* SpecReplaceConc run one and several callers of Replace, SpecReplaceAll  *)
(* one caller of Replace and ReplaceAll, SpecOverlap one caller of Replace *)
(* on tables with overlapping patterns; SpecPool, SpecPoolStats and        *)
(* SpecRegex interleave callers of a BuilderPool and of a RegexPool.       *)
(* SpecRegistry and SpecRegistryAlone run several callers and one caller   *)
(* of the registry and cache functions of package gotime, SpecFormat one   *)
(* caller of Format, SpecYearReplaceConc several callers of                *)
(* replaceYearInFormatted, and SpecLocks, which states fairness, the       *)
(* callers of every function that takes erasMu or ec.mu.                   *)
(***************************************************************************)
EXTENDS Integers, Sequences, FiniteSets, TLC

(* ----------------------------- bounds ---------------------------------- *)
MaxYear == 1
NumEras == 1
MaxVal  == 1
MaxCap  == 3
MaxOps  == 4
MaxNegSize == 1    \* NewEraCache is given arguments down to -MaxNegSize
MaxLen   == 3    \* the longest input of Replace
MaxPats  == 2    \* the most keys of a replacement map
MaxCalls == 2    \* the most Replace calls
MaxPoolCalls == 3  \* the most Get and Put(nil) calls of the pool's callers
MaxWrites == 1   \* the most writes to a builder between Get and Put
MaxFormats == 2    \* the calls of replaceYearInFormatted made
MaxRegexCalls == 4  \* the most calls on the RegexPool and of NewRegexPool

Threads    == {"t1", "t2"}
MainThread == "t1"

(* ------------------------- program constants --------------------------- *)
DefaultMaxCacheSize == 1024
BEOffset == 543
DefaultBuilderCapacity == 256
MaxBuilderCapacity == 4096

(* ------------------------------ values --------------------------------- *)
Years   == 0..MaxYear
EraPtrs == 0..NumEras            \* 0 is the nil *Era pointer
Vals    == 0..MaxVal

cacheKey(ceYear, era) == [ceYear |-> ceYear, era |-> era]
ZeroKey == cacheKey(0, 0)        \* the zero value cacheKey{}
Keys    == {cacheKey(y, e) : y \in Years, e \in EraPtrs}
NoKey   == cacheKey(-1, 0)       \* "no key" in the observers below
None    == -1                    \* "no value" in the observers below

(* ------------------------- package gotime: eras ------------------------ *)
(* Era objects live in eraObj by address.  The package variables ce and be *)
(* are the first two; init() registers two more under "CE" and "BE".       *)
Era(name, offset) == [name |-> name, offset |-> offset]
CE == 1
BE == 2
InitEraObj == <<Era("CE", 0), Era("BE", BEOffset), Era("CE", 0), Era("BE", BEOffset)>>
InitEras   == [n \in {"CE", "BE"} |-> IF n = "CE" THEN 3 ELSE 4]

Names    == {"CE", "BE", "X"}    \* the names RegisterEra is called with
Offsets  == {1, BEOffset}        \* the offsets RegisterEra is called with
OptionNames == {"BE", "X", ""}   \* the names the callers of the whole registry use
EraAddrs == 1..(Len(InitEraObj)
                + Cardinality((Names \cup OptionNames) \ DOMAIN InitEras))
AllKeys  == {cacheKey(y, e) : y \in Years, e \in {0} \cup EraAddrs}

(* A faulty FromCE: the offset is taken off, as ToCE does. *)
FromCESubtracts(e, ceYear) == ceYear - e.offset

(* e.FromCE(ceYear), e an Era object *)
FromCE(e, ceYear) == ceYear + e.offset

(* --------------------------- sync.Map ---------------------------------- *)
EmptyMap == [k \in {} |-> 0]

MapLoad(m, k) == IF k \in DOMAIN m THEN <<m[k], TRUE>> ELSE <<0, FALSE>>

(* A faulty MapStore (LoadOrStore): an existing entry is kept. *)
MapStoreKeepsOld(m, k, v) ==
  [x \in (DOMAIN m) \cup {k} |-> IF x \in DOMAIN m THEN m[x] ELSE v]

MapStore(m, k, v) == [x \in (DOMAIN m) \cup {k} |-> IF x = k THEN v ELSE m[x]]

MapDelete(m, k) == [x \in (DOMAIN m) \ {k} |-> m[x]]

(* --------------------------- lruList ----------------------------------- *)
(* nodes maps the address of every live lruNode to its fields; 0 is nil.   *)
newLRUList == [head |-> 0, tail |-> 0, size |-> 0, nodes |-> [n \in {} |-> 0]]

NewNode(l) == CHOOSE n \in 1..(Cardinality(DOMAIN l.nodes) + 1) :
                 /\ n \notin DOMAIN l.nodes
                 /\ \A m \in 1..(n - 1) : m \in DOMAIN l.nodes

addToFront(l, k) ==
  LET n == NewNode(l) IN
  IF l.head = 0
  THEN [head |-> n, tail |-> n, size |-> l.size + 1,
        nodes |-> [m \in (DOMAIN l.nodes) \cup {n} |->
                     IF m = n THEN [key |-> k, prev |-> 0, next |-> 0]
                              ELSE l.nodes[m]]]
  ELSE [head |-> n, tail |-> l.tail, size |-> l.size + 1,
        nodes |-> [m \in (DOMAIN l.nodes) \cup {n} |->
                     IF m = n THEN [key |-> k, prev |-> 0, next |-> l.head]
                     ELSE IF m = l.head THEN [l.nodes[m] EXCEPT !.prev = n]
                     ELSE l.nodes[m]]]

(* The key removeLeastRecent returns. *)
LeastRecentKey(l) == IF l.tail = 0 THEN ZeroKey ELSE l.nodes[l.tail].key

(* The list removeLeastRecent leaves; the unlinked node is garbage. *)
removeLeastRecent(l) ==
  IF l.tail = 0 THEN l
  ELSE LET t == l.nodes[l.tail].prev IN
       [head  |-> IF t = 0 THEN 0 ELSE l.head,
        tail  |-> t,
        size  |-> l.size - 1,
        nodes |-> [m \in (DOMAIN l.nodes) \ {l.tail} |->
                     IF m = t THEN [l.nodes[m] EXCEPT !.next = 0]
                              ELSE l.nodes[m]]]

(* The nodes met walking next pointers from n. *)
RECURSIVE Walk(_, _, _)
Walk(l, n, seen) ==
  IF n = 0 \/ n \in seen \/ n \notin DOMAIN l.nodes THEN seen
  ELSE Walk(l, l.nodes[n].next, seen \cup {n})

Reachable(l) == Walk(l, l.head, {})

(* The keys of the list, head (most recent) first. *)
RECURSIVE KeysFrom(_, _, _)
KeysFrom(l, n, fuel) ==
  IF n = 0 \/ fuel = 0 THEN <<>>
  ELSE <<l.nodes[n].key>> \o KeysFrom(l, l.nodes[n].next, fuel - 1)

ListKeys(l) == KeysFrom(l, l.head, Cardinality(DOMAIN l.nodes))

ListKeySet(l) == {l.nodes[n].key : n \in Reachable(l)}

(* ------------------------------ strings -------------------------------- *)
(* A string is the sequence of its bytes. *)
Alphabet == {1, 2}

Strs(n) == UNION {[1..k -> Alphabet] : k \in 0..n}

Inputs == Strs(MaxLen)           \* the inputs of Replace
Froms  == Strs(MaxLen - 1)       \* the keys of a replacement map
Tos    == {<<>>, <<1>>}          \* the values of a replacement map

(* The maps map[string]string given to NewStringReplacer. *)
Maps == UNION {[D -> Tos] : D \in {D \in SUBSET Froms : Cardinality(D) <= MaxPats}}

(* Maps whose replacement texts hold patterns, and maps with a longer      *)
(* pattern that begins inside a shorter one; the inputs given to them.     *)
OverlapMaps ==
  {[f \in {<<1>>, <<2>>} |-> IF f = <<1>> THEN <<2>> ELSE <<1>>],
   [f \in {<<1>>, <<2, 2>>} |-> IF f = <<1>> THEN <<2, 2>> ELSE <<1>>],
   [f \in {<<1, 2>>, <<2, 1, 1>>} |-> IF f = <<1, 2>> THEN <<1>> ELSE <<2>>],
   [f \in {<<2, 1>>, <<1, 2, 2>>} |-> IF f = <<2, 1>> THEN <<1, 2, 2>> ELSE <<>>]}
OverlapInputs == Strs(MaxLen + 1)

(* The orders in which a range loop may visit the keys D of a map. *)
Orders(D) == {o \in [1..Cardinality(D) -> D] :
                \A i, j \in 1..Cardinality(D) : i # j => o[i] # o[j]}

(* a > b on strings: byte-wise, a proper prefix being smaller *)
RECURSIVE StrGreater(_, _)
StrGreater(a, b) ==
  IF a = <<>> THEN FALSE
  ELSE IF b = <<>> THEN TRUE
  ELSE IF Head(a) # Head(b) THEN Head(a) > Head(b)
  ELSE StrGreater(Tail(a), Tail(b))

(* ------------------------- NewStringReplacer --------------------------- *)
replacement(from, to) == [from |-> from, to |-> to, len |-> Len(from)]

(* A faulty Less: shorter keys first. *)
LessShortestFirst(x, y) ==
  IF x.len # y.len THEN x.len < y.len ELSE StrGreater(x.from, y.from)

(* the less function given to sort.Slice *)
Less(x, y) ==
  IF x.len # y.len THEN x.len > y.len ELSE StrGreater(x.from, y.from)

(* x put into the sorted reps, before the first element it is less than. *)
RECURSIVE Insert(_, _)
Insert(reps, x) ==
  IF reps = <<>> THEN <<x>>
  ELSE IF Less(x, Head(reps)) THEN <<x>> \o reps
  ELSE <<Head(reps)>> \o Insert(Tail(reps), x)

(* sort.Slice(reps, less) *)
RECURSIVE SortSlice(_)
SortSlice(reps) ==
  IF reps = <<>> THEN <<>> ELSE Insert(SortSlice(Tail(reps)), Head(reps))

(* The replacements of NewStringReplacer(m) when range visits m in order o. *)
NewStringReplacer(m, o) ==
  SortSlice([i \in 1..Len(o) |-> replacement(o[i], m[o[i]])])

(* ------------------------------ Replace -------------------------------- *)
(* A faulty Matches: only the lengths are compared. *)
MatchesAnyText(r, s, i) == Len(s) - i >= r.len

(* len(s)-i >= rep.len && s[i:i+rep.len] == rep.from *)
Matches(r, s, i) == Len(s) - i >= r.len /\ SubSeq(s, i + 1, i + r.len) = r.from

(* The index of the replacement the inner loop breaks at, 0 if it ends. *)
FirstMatch(reps, s, i) ==
  LET M == {j \in 1..Len(reps) : Matches(reps[j], s, i)} IN
  IF M = {} THEN 0 ELSE CHOOSE j \in M : \A k \in M : j <= k

(* A faulty HasNoReplacements: the fast path is never taken. *)
HasNoReplacementsNever(reps) == FALSE

(* len(sr.replacements) == 0 *)
HasNoReplacements(reps) == Len(reps) = 0

(* estimatedCap *)
EstimatedCap(s) == IF Len(s) + 64 < 64 THEN 64 ELSE Len(s) + 64

(* --------------------------- strings.Builder --------------------------- *)
(* A builder holds the bytes written (buf) in an array of cap bytes; gen    *)
(* counts the arrays it has allocated, and cap = 0 is the nil buffer.      *)
NewBuilder == [buf |-> <<>>, cap |-> 0, gen |-> 0]

(* The array b.buf lies in, 0 for the nil buffer. *)
ArrayOf(b) == IF b.cap = 0 THEN 0 ELSE b.gen

(* A faulty Reset that keeps the bytes written. *)
ResetKeeps(b) == b

(* A faulty Reset that keeps the array and sets the length to 0. *)
ResetTruncates(b) == [b EXCEPT !.buf = <<>>]

(* b.Reset(): the buffer is dropped *)
Reset(b) == [buf |-> <<>>, cap |-> 0, gen |-> b.gen]

(* b.Grow(n) *)
Grow(b, n) ==
  IF b.cap - Len(b.buf) < n
  THEN [b EXCEPT !.cap = 2 * b.cap + n, !.gen = @ + 1]
  ELSE b

(* b.WriteString(str), b.WriteByte(c): append, which at least doubles a full buffer *)
WriteString(b, str) ==
  LET n == Len(b.buf) + Len(str) IN
  [buf |-> b.buf \o str,
   cap |-> IF n <= b.cap THEN b.cap ELSE IF n > 2 * b.cap THEN n ELSE 2 * b.cap,
   gen |-> IF n <= b.cap THEN b.gen ELSE b.gen + 1]

(* A faulty WriteByte: the byte is written twice. *)
WriteByteTwice(b, c) == WriteString(b, <<c, c>>)

WriteByte(b, c) == WriteString(b, <<c>>)

(* if capacityHint > b.Cap() { b.Grow(capacityHint - b.Cap()) } *)
GetGrow(b, capacityHint) ==
  IF capacityHint > b.cap THEN Grow(b, capacityHint - b.cap) ELSE b

(* The capacity hints the pool's callers pass to Get, and what they write. *)
Hints   == {0, 100, MaxBuilderCapacity, MaxBuilderCapacity + 1}
Writes  == {<<1>>, <<1, 2>>}

(* ----------------------------- BuilderPool ----------------------------- *)
NewBuilderPool == [free |-> <<>>, Gets |-> 0, Puts |-> 0, Allocates |-> 0]

(* The free list once sync.Pool.Get has handed out its j-th builder. *)
PoolRemove(free, j) == SubSeq(free, 1, j - 1) \o SubSeq(free, j + 1, Len(free))

(* A faulty NewBuilderAddr: every new builder is the first one again. *)
NewBuilderAddrFirst(bs) == 1

(* &strings.Builder{}: the address of a new builder *)
NewBuilderAddr(bs) == Len(bs) + 1

(* --------------------------- package gotime: format -------------------- *)
(* Formatted text is a sequence of characters, each a string of length 1. *)
DigitChars == <<"0", "1", "2", "3", "4", "5", "6", "7", "8", "9">>

(* c >= '0' && c <= '9' *)
IsDigit(c) == \E d \in 1..Len(DigitChars) : DigitChars[d] = c

(* The letters that occur in the layouts used. *)
LetterChars == {"T", "Z"}

(* (c >= 'a' && c <= 'z') || (c >= 'A' && c <= 'Z') *)
IsLetter(c) == c \in LetterChars

(* strconv.AppendInt(buf[:0], n, 10), strconv.Itoa(n) *)
RECURSIVE AppendInt(_)
AppendInt(n) ==
  IF n < 0 THEN <<"-">> \o AppendInt(0 - n)
  ELSE IF n < 10 THEN <<DigitChars[n + 1]>>
  ELSE Append(AppendInt(n \div 10), DigitChars[(n % 10) + 1])

(* for len(str) < w { str = append(str, '0') } *)
RECURSIVE AppendZeros(_, _)
AppendZeros(str, w) ==
  IF Len(str) < w THEN AppendZeros(Append(str, "0"), w) ELSE str

(* fmt.Sprintf("%0wd", n) for n >= 0, as the earlier version formats *)
RECURSIVE ZeroPadded(_, _)
ZeroPadded(n, w) ==
  LET str == AppendInt(n) IN
  IF Len(str) < w THEN <<"0">> \o ZeroPadded(n, w - 1) ELSE str

(* currentShortYear: strconv.Itoa(refDate.Year() % 100), "0" put before one digit *)
CurrentShortYear(refYear) ==
  LET str == AppendInt(refYear % 100) IN
  IF Len(str) = 1 THEN <<"0">> \o str ELSE str

(* j - i after: for j < i+w && j < len(formatted) && the digit test { j++ } *)
RECURSIVE DigitRun(_, _, _)
DigitRun(formatted, i, w) ==
  IF w > 0 /\ i < Len(formatted) /\ IsDigit(formatted[i + 1])
  THEN 1 + DigitRun(formatted, i + 1, w - 1) ELSE 0

(* the word boundary test after a run that ends before index j *)
BoundaryAfter(formatted, j) ==
  \/ j >= Len(formatted)
  \/ ~IsDigit(formatted[j + 1]) /\ ~IsLetter(formatted[j + 1])

(* the test of the 4-digit branch at index i *)
FourDigitYearAt(formatted, i) ==
  /\ i + 4 <= Len(formatted) /\ IsDigit(formatted[i + 1])
  /\ DigitRun(formatted, i, 4) = 4
  /\ BoundaryAfter(formatted, i + 4)

(* the test of the 2-digit branch at index i *)
TwoDigitYearAt(formatted, i, currentShortYear) ==
  /\ i + 2 <= Len(formatted) /\ IsDigit(formatted[i + 1])
  /\ DigitRun(formatted, i, 2) = 2
  /\ BoundaryAfter(formatted, i + 2)
  /\ SubSeq(formatted, i + 1, i + 2) = currentShortYear

(* time.Time.Format: what each element of a layout writes for the time tm *)
LayoutField(tm, tok) ==
  CASE tok = "2006" -> ZeroPadded(tm.year, 4)
    [] tok = "06" -> ZeroPadded(tm.year % 100, 2)
    [] tok = "01" -> ZeroPadded(tm.month, 2)
    [] tok = "02" -> ZeroPadded(tm.day, 2)
    [] tok = "15" -> ZeroPadded(tm.hour, 2)
    [] tok = "04" -> ZeroPadded(tm.minute, 2)
    [] tok = "05" -> ZeroPadded(tm.second, 2)
    [] tok = ".0000" -> <<".">> \o ZeroPadded(tm.frac, 4)
    [] OTHER -> <<tok>>

(* t.Time.Format(layout), the layout given as its elements *)
RECURSIVE TimeFormat(_, _)
TimeFormat(tm, layout) ==
  IF layout = <<>> THEN <<>>
  ELSE LayoutField(tm, Head(layout)) \o TimeFormat(tm, Tail(layout))

(* The times formatted, the layouts, the years of the reference date, and *)
(* what replaceYearInFormatted is given when called on its own.           *)
Times ==
  {[year |-> 0, month |-> 12, day |-> 24, hour |-> 12, minute |-> 1,
    second |-> 24, frac |-> 1234],
   [year |-> 1, month |-> 1, day |-> 1, hour |-> 0, minute |-> 0,
    second |-> 1, frac |-> 0]}
Layouts ==
  {<<"2006", "-", "01", "-", "02">>,
   <<"02", "/", "01", "/", "06">>,
   <<"15", ":", "04", ":", "05", ".0000">>,
   <<"2006", "01", "02", "T", "15">>}
RefYears == {2001, 2024}
EraYears == {7, 543, 2567}
Formatteds == {<<"2", "0", "2", "4">>, <<"2", "4", "-", "0", "1">>}

(* ---------------------------- NewEraCache ------------------------------ *)
(* A faulty NewEraCache that takes the argument as it is. *)
NewEraCacheSizeAsGiven(maxSizeArg) == maxSizeArg

NewEraCacheSize(maxSizeArg) ==
  IF maxSizeArg <= 0 THEN DefaultMaxCacheSize ELSE maxSizeArg


(* ------------------------------ state ---------------------------------- *)
VARIABLES
  cache,     \* ec.cache: the address of the current sync.Map
  heap,      \* the live sync.Maps by address
  lru,       \* ec.lruList
  maxSize,   \* ec.maxSize
  stats,     \* ec.stats
  mu,        \* ec.mu: the thread holding it, or "free"
  pc,        \* each thread's position
  key,       \* each thread's local key
  val,       \* each thread's argument eraYear
  cachePtr,  \* Get's local cachePtr
  ret,       \* the value the thread's call is about to return
  preMap,    \* observer: the backing map when the thread's Set was called
  ops,       \* observer: the number of calls made
  hist,      \* observer: what the calls so far did (see the fields in Init)
  frame,     \* each thread's call of package gotime, of ReplaceAll or on the
             \*   RegexPool in progress, if any
  eras,      \* package gotime: the registry eras, name -> *Era
  erasMu,    \* package gotime: erasMu, the thread holding it for writing,
             \*   or "free"
  erasReaders, \* package gotime: the threads holding erasMu for reading
  eraObj,    \* package gotime: the Era objects by address
  sr,        \* the shared StringReplacer: its replacements
  rcall,     \* each thread's call of Replace or on the BuilderPool in
             \*   progress, if any
  pool,      \* builderPool: its free list and its counters
  builders,  \* the strings.Builder objects by address
  regexPool  \* the RegexPool: its pattern and its pooled matchers, if made

cacheVars == <<cache, heap, lru, maxSize, stats, mu, pc, key, val, cachePtr, ret,
               preMap, ops, hist>>

regVars == <<eras, erasMu, erasReaders, eraObj>>

replVars == <<sr, rcall, pool, builders>>

(* cacheVars but for ops *)
cacheState == <<cache, heap, lru, maxSize, stats, mu, pc, key, val, cachePtr,
                ret, preMap, hist>>

vars == <<cacheVars, frame, regVars, replVars, regexPool>>

NoRet == [op |-> "none"]

AllNone == [k \in AllKeys \cup Keys |-> None]

NoFrame == [fn |-> "none"]

(* The packages' variables as program start leaves them. *)
InitGotime ==
  /\ frame = [t \in Threads |-> NoFrame]
  /\ eras = InitEras
  /\ erasMu = "free"
  /\ erasReaders = {}
  /\ eraObj = InitEraObj

NoCall == [at |-> "none"]

(* No RegexPool has been made. *)
NoRegexPool == [pattern |-> "none"]

(* The patterns given to NewRegexPool; regexp.Compile returns an error    *)
(* for the second one, an unclosed group.                                 *)
Patterns == {"\\d+", "("}
CompileFails(pattern) == pattern = "("

(* The convenience operations of RegexPool. *)
RegexOps == {"ReplaceAllStringFunc", "ReplaceAllString", "FindAllString",
             "FindString", "MatchString"}

InitRegex == regexPool = NoRegexPool

(* A StringReplacer made from one of the maps ms, no Replace called yet. *)
InitReplacer(ms) ==
  /\ sr \in UNION {{[replacements |-> NewStringReplacer(m, o), map |-> m] :
                       o \in Orders(DOMAIN m)} : m \in ms}
  /\ rcall = [t \in Threads |-> NoCall]
  /\ pool = NewBuilderPool
  /\ builders = <<>>

(* No StringReplacer in use. *)
InitNoReplacer == InitReplacer({EmptyMap})

(* NewEraCache(a) for some a of args. *)
InitCache(args) ==
  \E maxSizeArg \in args :
  /\ maxSize = NewEraCacheSize(maxSizeArg)
  /\ cache = 1
  /\ heap = [m \in {1} |-> EmptyMap]
  /\ lru = newLRUList
  /\ stats = [Hits |-> 0, Misses |-> 0, Evictions |-> 0]
  /\ mu = "free"
  /\ pc = [t \in Threads |-> "idle"]
  /\ key = [t \in Threads |-> ZeroKey]
  /\ val = [t \in Threads |-> 0]
  /\ cachePtr = [t \in Threads |-> 0]
  /\ ret = [t \in Threads |-> NoRet]
  /\ preMap = [t \in Threads |-> EmptyMap]
  /\ ops = 0
  /\ hist = [lastSet    |-> AllNone,  \* key -> value of the last completed Set of it,
                                      \*   None after a later eviction of it or a Clear
             fresh      |-> TRUE,     \* the Sets since the cache was last empty (new or
                                      \*   cleared) all had different keys
             setLog     |-> <<>>,     \* while fresh: the keys of those Sets, in order
             evictLog   |-> <<>>,     \* while fresh: the keys Set deleted from the map
             removed    |-> 0,        \* nodes removeLeastRecent unlinked since the last Clear
             promoted   |-> NoKey,    \* key of the last Get hit made while another key
                                      \*   was tracked, until the next eviction
             lastStored |-> NoKey,    \* key of the last completed Set since the last Clear
             justCleared |-> FALSE,   \* a Clear returned and no call has returned since
             cleared    |-> {},       \* until then: the keys cached when Clear was called
             clearedAcc |-> 0,        \* until then: Hits + Misses at that moment
             clears     |-> 0,        \* the number of Clears that have returned
             stamp      |-> [m \in {1} |-> EmptyMap],
                                      \* per live map and entry: the value of clears
                                      \*   when Set stored the entry
             seen       |-> [t \in Threads |-> 0],
                                      \* the value of clears when the thread's Get was called
             readStamp  |-> [t \in Threads |-> None],
                                      \* the stamp of the entry the thread's Get loaded
             gets       |-> 0,        \* while noClear: the number of Gets called
             noClear    |-> TRUE,     \* Clear has never been called
             snaps      |-> {},       \* during a Stats or HitRate call: the values the counters
                                      \*   have held together since its first load
             clearAlone |-> TRUE,     \* while justCleared: no Get was in progress
                                      \*   during that Clear
             underLock  |-> [t \in Threads |-> FALSE],
                                      \* another thread has held the mutex since the
                                      \*   thread's Get in progress was called
             maxSizeArg |-> maxSizeArg,
                                      \* the argument NewEraCache was given
             firstReg   |-> [n \in Names \cup OptionNames |->
                               IF n \in DOMAIN InitEras
                               THEN [addr |-> InitEras[n],
                                     offset |-> InitEraObj[InitEras[n]].offset]
                               ELSE [addr |-> 0, offset |-> 0]]]
                                      \* per name: the Era the first registration of
                                      \*   it returned and the offset it was given

Init == InitCache(0..MaxCap) /\ InitGotime /\ InitNoReplacer /\ InitRegex

Idle(t) == pc[t] = "idle"

(* The sync.Map the atomic.Value holds, as ec.cache.Load() returns it. *)
CurrentMap == heap[cache]

(* The maps still referenced, by the cache or by a Get in progress. *)
Collect(h, c, ptrs) == [m \in {c} \cup ({ptrs[t] : t \in Threads} \ {0}) |-> h[m]]

NewMapAddr(h) == CHOOSE n \in 1..(Cardinality(DOMAIN h) + 1) :
                    /\ n \notin DOMAIN h
                    /\ \A m \in 1..(n - 1) : m \in DOMAIN h

(* A call other than Clear returns: it no longer directly follows a Clear. *)
Returned(h) == [h EXCEPT !.justCleared = FALSE, !.cleared = {}, !.clearedAcc = 0,
                         !.clearAlone = IF h.justCleared THEN TRUE ELSE @]

(* The thread holding the mutex is in Clear. *)
InClear == mu # "free" /\ pc[mu] \in {"clear_list", "clear_hits", "clear_misses",
                                      "clear_evictions", "clear_unlock"}

(* Where the caller f of a method goes on when the method returns: r is   *)
(* what a cache method returns and v the eraYear it was given; for Replace *)
(* v is the string it returns.                                             *)
Resume(f, r, v) ==
  CASE f.fn = "Year" /\ f.at = "get" ->
         IF r.ok THEN [f EXCEPT !.at = "done", !.result = r.val, !.hit = TRUE]
                 ELSE [f EXCEPT !.at = "miss"]
    [] f.fn = "Year" /\ f.at = "miss" -> [f EXCEPT !.at = "done", !.result = v]
    [] f.fn = "RegisterEra" /\ f.at = "clear" -> [f EXCEPT !.at = "unlock"]
    [] f.fn = "RegisterEraWithOptions" /\ f.at = "clear" ->
         [f EXCEPT !.at = "unlock"]
    [] f.fn = "ReplaceAll" /\ f.at = "call" -> [f EXCEPT !.at = "done", !.result = v]
    [] f.fn = "Format" /\ f.at = "get" ->
         IF r.ok THEN [f EXCEPT !.at = "replace", !.eraYear = r.val]
                 ELSE [f EXCEPT !.at = "miss"]
    [] f.fn = "Format" /\ f.at = "miss" -> [f EXCEPT !.at = "replace", !.eraYear = v]
    [] f.fn = "Format" /\ f.at = "replace" -> [f EXCEPT !.at = "done", !.result = v]
    [] OTHER -> f

(* A call returns: the thread's locals die, its caller goes on. *)
Return(t) ==
  /\ frame' = [frame EXCEPT ![t] = Resume(@, ret[t], val[t])]
  /\ pc' = [pc EXCEPT ![t] = "idle"]
  /\ key' = [key EXCEPT ![t] = ZeroKey]
  /\ val' = [val EXCEPT ![t] = 0]
  /\ ret' = [ret EXCEPT ![t] = NoRet]
  /\ preMap' = [preMap EXCEPT ![t] = EmptyMap]

(* ------------------------------- Get ----------------------------------- *)
(* key := cacheKey{...}; cachePtr := ec.cache.Load() *)
GetLoadPtr(t, k) ==
  /\ Idle(t) /\ ops < MaxOps
  /\ pc' = [pc EXCEPT ![t] = "get_load"]
  /\ key' = [key EXCEPT ![t] = k]
  /\ cachePtr' = [cachePtr EXCEPT ![t] = cache]
  /\ ops' = ops + 1
  /\ hist' = [hist EXCEPT !.seen[t] = hist.clears,
                            !.gets = IF hist.noClear THEN @ + 1 ELSE @,
                            !.clearAlone = @ /\ ~InClear,
                            !.underLock[t] = mu # "free"]
  /\ UNCHANGED <<cache, heap, lru, maxSize, stats, mu, val, ret, preMap>>
  /\ UNCHANGED <<frame, regVars, replVars, regexPool>>

GetResult(m, k) ==
  LET r == MapLoad(m, k) IN [op |-> "Get", val |-> r[1], ok |-> r[2]]

(* A faulty Get that reads the map only while the mutex is free. *)
GetLoadLocked(t) ==
  /\ pc[t] = "get_load"
  /\ mu = "free"
  /\ ret' = [ret EXCEPT ![t] = GetResult(heap[cachePtr[t]], key[t])]
  /\ pc' = [pc EXCEPT ![t] = "get_count"]
  /\ hist' = [hist EXCEPT !.underLock[t] = FALSE]
  /\ UNCHANGED <<cache, heap, lru, maxSize, stats, mu, key, val, cachePtr,
                 preMap, ops>>
  /\ UNCHANGED <<frame, regVars, replVars, regexPool>>

(* val, ok := cachePtr.Load(key) *)
GetLoad(t) ==
  /\ pc[t] = "get_load"
  /\ ret' = [ret EXCEPT ![t] = GetResult(heap[cachePtr[t]], key[t])]
  /\ pc' = [pc EXCEPT ![t] = "get_count"]
  /\ hist' = [hist EXCEPT
       !.promoted = IF ~ret'[t].ok THEN @
                    ELSE IF ListKeySet(lru) \ {key[t]} # {} THEN key[t] ELSE NoKey,
       !.readStamp[t] = IF ret'[t].ok THEN hist.stamp[cachePtr[t]][key[t]] ELSE None,
       !.underLock[t] = @ /\ mu # "free"]
  /\ UNCHANGED <<cache, heap, lru, maxSize, stats, mu, key, val, cachePtr,
                 preMap, ops>>
  /\ UNCHANGED <<frame, regVars, replVars, regexPool>>

incrementHits(s) == [s EXCEPT !.Hits = @ + 1]

(* A faulty incrementMisses: the miss is not counted. *)
incrementMissesLost(s) == s

incrementMisses(s) == [s EXCEPT !.Misses = @ + 1]

(* ec.incrementHits() or ec.incrementMisses(), then return *)
GetCount(t) ==
  /\ pc[t] = "get_count"
  /\ stats' = IF ret[t].ok THEN incrementHits(stats) ELSE incrementMisses(stats)
  /\ cachePtr' = [cachePtr EXCEPT ![t] = 0]
  /\ heap' = Collect(heap, cache, cachePtr')
  /\ hist' = [Returned(hist) EXCEPT
       !.stamp = Collect(@, cache, cachePtr'),
       !.seen[t] = 0,
       !.readStamp[t] = None,
       !.underLock[t] = FALSE,
       !.snaps = IF @ = {} THEN @ ELSE @ \cup {stats'}]
  /\ Return(t)
  /\ UNCHANGED <<cache, lru, maxSize, mu, ops>>
  /\ UNCHANGED <<regVars, replVars, regexPool>>

(* ------------------------------- Set ----------------------------------- *)
(* key := cacheKey{...}; ec.mu.Lock() *)
SetLock(t, k, v) ==
  /\ Idle(t) /\ ops < MaxOps
  /\ mu = "free"
  /\ mu' = t
  /\ pc' = [pc EXCEPT ![t] = "set_evict"]
  /\ key' = [key EXCEPT ![t] = k]
  /\ val' = [val EXCEPT ![t] = v]
  /\ preMap' = [preMap EXCEPT ![t] = CurrentMap]
  /\ ops' = ops + 1
  /\ UNCHANGED <<cache, heap, lru, maxSize, stats, cachePtr, ret, hist>>
  /\ UNCHANGED <<frame, regVars, replVars, regexPool>>

(* A faulty NeedEvict: the comparison is off by one. *)
NeedEvictWhenOver(l, cap) == l.size > cap

(* A faulty NeedEvict: the size is taken as it will be after the insertion. *)
NeedEvictAfterInsert(l, cap) == l.size + 1 >= cap

(* if ec.lruList.size >= ec.maxSize *)
NeedEvict(l, cap) == l.size >= cap

(* if evictedKey.ceYear != 0 *)
EvictedIsReal(e) == e.ceYear # 0

(* the eviction block of Set *)
SetEvict(t) ==
  /\ pc[t] = "set_evict"
  /\ pc' = [pc EXCEPT ![t] = "set_store"]
  /\ IF NeedEvict(lru, maxSize)
     THEN LET e == LeastRecentKey(lru) IN
          /\ lru' = removeLeastRecent(lru)
          /\ IF EvictedIsReal(e)
             THEN /\ heap' = [heap EXCEPT ![cache] = MapDelete(@, e)]
                  /\ stats' = [stats EXCEPT !.Evictions = @ + 1]
             ELSE UNCHANGED <<heap, stats>>
          /\ hist' = [hist EXCEPT
               !.removed  = IF lru.tail # 0 THEN @ + 1 ELSE @,
               !.promoted = IF lru.tail # 0 THEN NoKey ELSE @,
               !.evictLog = IF hist.fresh /\ EvictedIsReal(e) THEN Append(@, e) ELSE @,
               !.lastSet  = IF EvictedIsReal(e) THEN [@ EXCEPT ![e] = None] ELSE @,
               !.stamp[cache] = IF EvictedIsReal(e) THEN MapDelete(@, e) ELSE @]
     ELSE UNCHANGED <<lru, heap, stats, hist>>
  /\ UNCHANGED <<cache, maxSize, mu, key, val, cachePtr, ret, preMap, ops>>
  /\ UNCHANGED <<frame, regVars, replVars, regexPool>>

(* cachePtr := ec.cache.Load(); cachePtr.Store(key, eraYear) *)
SetStore(t) ==
  /\ pc[t] = "set_store"
  /\ pc' = [pc EXCEPT ![t] = "set_add"]
  /\ heap' = [heap EXCEPT ![cache] = MapStore(@, key[t], val[t])]
  /\ hist' = [hist EXCEPT !.stamp[cache] = MapStore(@, key[t], hist.clears)]
  /\ UNCHANGED <<cache, lru, maxSize, stats, mu, key, val, cachePtr, ret,
                 preMap, ops>>
  /\ UNCHANGED <<frame, regVars, replVars, regexPool>>

(* ec.lruList.addToFront(key) *)
SetAddToFront(t) ==
  /\ pc[t] = "set_add"
  /\ pc' = [pc EXCEPT ![t] = "set_unlock"]
  /\ lru' = addToFront(lru, key[t])
  /\ UNCHANGED <<cache, heap, maxSize, stats, mu, key, val, cachePtr, ret,
                 preMap, ops, hist>>
  /\ UNCHANGED <<frame, regVars, replVars, regexPool>>

(* A faulty Set that returns with ec.mu locked. *)
SetUnlockKeeps(t) ==
  /\ pc[t] = "set_unlock"
  /\ mu' = mu
  /\ LET isNew == hist.fresh /\ \A i \in 1..Len(hist.setLog) : hist.setLog[i] # key[t] IN
     hist' = [Returned(hist) EXCEPT
       !.lastSet    = [@ EXCEPT ![key[t]] = val[t]],
       !.fresh      = isNew,
       !.setLog     = IF isNew THEN Append(@, key[t]) ELSE <<>>,
       !.evictLog   = IF isNew THEN @ ELSE <<>>,
       !.lastStored = key[t]]
  /\ Return(t)
  /\ UNCHANGED <<cache, heap, lru, maxSize, stats, cachePtr, ops>>
  /\ UNCHANGED <<regVars, replVars, regexPool>>

(* ec.mu.Unlock() and return *)
SetUnlock(t) ==
  /\ pc[t] = "set_unlock"
  /\ mu' = "free"
  /\ LET isNew == hist.fresh /\ \A i \in 1..Len(hist.setLog) : hist.setLog[i] # key[t] IN
     hist' = [Returned(hist) EXCEPT
       !.lastSet    = [@ EXCEPT ![key[t]] = val[t]],
       !.fresh      = isNew,
       !.setLog     = IF isNew THEN Append(@, key[t]) ELSE <<>>,
       !.evictLog   = IF isNew THEN @ ELSE <<>>,
       !.lastStored = key[t]]
  /\ Return(t)
  /\ UNCHANGED <<cache, heap, lru, maxSize, stats, cachePtr, ops>>
  /\ UNCHANGED <<regVars, replVars, regexPool>>

(* ------------------------------ Clear ---------------------------------- *)
(* A faulty ClearedMap: the new map starts with the entries of the old one. *)
ClearedMapKeeps(old) == old

(* &sync.Map{}: the map Clear installs in place of the map old *)
ClearedMap(old) == EmptyMap

(* ec.mu.Lock(); ec.cache.Store(&sync.Map{}) *)
ClearSwap(t) ==
  /\ Idle(t) /\ ops < MaxOps
  /\ mu = "free"
  /\ mu' = t
  /\ pc' = [pc EXCEPT ![t] = "clear_list"]
  /\ ops' = ops + 1
  /\ LET a == NewMapAddr(heap) IN
     /\ cache' = a
     /\ heap' = Collect([m \in (DOMAIN heap) \cup {a} |->
                           IF m = a THEN ClearedMap(CurrentMap) ELSE heap[m]],
                        a, cachePtr)
     /\ hist' = [hist EXCEPT
       !.stamp      = Collect([m \in (DOMAIN heap) \cup {a} |->
                                IF m = a THEN [k \in DOMAIN heap'[a] |-> hist.stamp[cache][k]]
                                         ELSE hist.stamp[m]], a, cachePtr),
       !.gets       = 0,
       !.noClear    = FALSE,
       !.lastSet    = AllNone,
       !.fresh      = TRUE,
       !.setLog     = <<>>,
       !.evictLog   = <<>>,
       !.removed    = 0,
       !.promoted   = NoKey,
       !.lastStored = NoKey,
       !.justCleared = FALSE,
       !.clearAlone = \A u \in Threads : pc[u] \notin {"get_load", "get_count"},
       !.cleared    = DOMAIN CurrentMap,
       !.clearedAcc = stats.Hits + stats.Misses]
  /\ UNCHANGED <<lru, maxSize, stats, key, val, cachePtr, ret, preMap>>
  /\ UNCHANGED <<frame, regVars, replVars, regexPool>>

(* ec.lruList = newLRUList() *)
ClearList(t) ==
  /\ pc[t] = "clear_list"
  /\ pc' = [pc EXCEPT ![t] = "clear_hits"]
  /\ lru' = newLRUList
  /\ UNCHANGED <<cache, heap, maxSize, stats, mu, key, val, cachePtr, ret,
                 preMap, ops, hist>>
  /\ UNCHANGED <<frame, regVars, replVars, regexPool>>

(* atomic.StoreUint64(&ec.stats.Hits, 0) *)
ClearHits(t) ==
  /\ pc[t] = "clear_hits"
  /\ pc' = [pc EXCEPT ![t] = "clear_misses"]
  /\ stats' = [stats EXCEPT !.Hits = 0]
  /\ UNCHANGED <<cache, heap, lru, maxSize, mu, key, val, cachePtr, ret,
                 preMap, ops, hist>>
  /\ UNCHANGED <<frame, regVars, replVars, regexPool>>

(* A faulty ClearMisses: the miss counter is left as it is. *)
ClearMissesKept(t) ==
  /\ pc[t] = "clear_misses"
  /\ pc' = [pc EXCEPT ![t] = "clear_evictions"]
  /\ UNCHANGED <<cache, heap, lru, maxSize, stats, mu, key, val, cachePtr, ret,
                 preMap, ops, hist>>
  /\ UNCHANGED <<frame, regVars, replVars, regexPool>>

(* atomic.StoreUint64(&ec.stats.Misses, 0) *)
ClearMisses(t) ==
  /\ pc[t] = "clear_misses"
  /\ pc' = [pc EXCEPT ![t] = "clear_evictions"]
  /\ stats' = [stats EXCEPT !.Misses = 0]
  /\ UNCHANGED <<cache, heap, lru, maxSize, mu, key, val, cachePtr, ret,
                 preMap, ops, hist>>
  /\ UNCHANGED <<frame, regVars, replVars, regexPool>>

(* atomic.StoreUint64(&ec.stats.Evictions, 0) *)
ClearEvictions(t) ==
  /\ pc[t] = "clear_evictions"
  /\ pc' = [pc EXCEPT ![t] = "clear_unlock"]
  /\ stats' = [stats EXCEPT !.Evictions = 0]
  /\ UNCHANGED <<cache, heap, lru, maxSize, mu, key, val, cachePtr, ret,
                 preMap, ops, hist>>
  /\ UNCHANGED <<frame, regVars, replVars, regexPool>>

(* the deferred ec.mu.Unlock(), and return *)
ClearUnlock(t) ==
  /\ pc[t] = "clear_unlock"
  /\ mu' = "free"
  /\ hist' = [hist EXCEPT !.justCleared = TRUE, !.clears = @ + 1]
  /\ Return(t)
  /\ UNCHANGED <<cache, heap, lru, maxSize, stats, cachePtr, ops>>
  /\ UNCHANGED <<regVars, replVars, regexPool>>

(* ------------------------------ Stats ---------------------------------- *)
(* ec.mu.Lock(); Hits: atomic.LoadUint64(&ec.stats.Hits) *)
StatsHits(t) ==
  /\ Idle(t) /\ ops < MaxOps
  /\ mu = "free"
  /\ mu' = t
  /\ pc' = [pc EXCEPT ![t] = "stats_misses"]
  /\ ret' = [ret EXCEPT ![t] = [op |-> "partial", Hits |-> stats.Hits]]
  /\ ops' = ops + 1
  /\ hist' = [hist EXCEPT !.snaps = {stats}]
  /\ UNCHANGED <<cache, heap, lru, maxSize, stats, key, val, cachePtr,
                 preMap>>
  /\ UNCHANGED <<frame, regVars, replVars, regexPool>>

(* Misses: atomic.LoadUint64(&ec.stats.Misses) *)
StatsMisses(t) ==
  /\ pc[t] = "stats_misses"
  /\ pc' = [pc EXCEPT ![t] = "stats_evictions"]
  /\ ret' = [ret EXCEPT ![t] = [op |-> "partial", Hits |-> ret[t].Hits,
                                Misses |-> stats.Misses]]
  /\ UNCHANGED <<cache, heap, lru, maxSize, stats, mu, key, val, cachePtr,
                 preMap, ops, hist>>
  /\ UNCHANGED <<frame, regVars, replVars, regexPool>>

(* Evictions: atomic.LoadUint64(&ec.stats.Evictions) *)
StatsEvictions(t) ==
  /\ pc[t] = "stats_evictions"
  /\ pc' = [pc EXCEPT ![t] = "stats_unlock"]
  /\ ret' = [ret EXCEPT ![t] = [op |-> "Stats", Hits |-> ret[t].Hits,
                                Misses |-> ret[t].Misses,
                                Evictions |-> stats.Evictions]]
  /\ UNCHANGED <<cache, heap, lru, maxSize, stats, mu, key, val, cachePtr,
                 preMap, ops, hist>>
  /\ UNCHANGED <<frame, regVars, replVars, regexPool>>

(* the deferred ec.mu.Unlock(), and return *)
StatsUnlock(t) ==
  /\ pc[t] = "stats_unlock"
  /\ mu' = "free"
  /\ hist' = [Returned(hist) EXCEPT !.snaps = {}]
  /\ Return(t)
  /\ UNCHANGED <<cache, heap, lru, maxSize, stats, cachePtr, ops>>
  /\ UNCHANGED <<regVars, replVars, regexPool>>

(* ----------------------------- HitRate --------------------------------- *)
RECURSIVE GCD(_, _)
GCD(a, b) == IF b = 0 THEN a ELSE GCD(b, a % b)

(* float64(hits) / float64(total) for total > 0, as a fraction in lowest  *)
(* terms; 0.0 is 0/1                                                      *)
Quotient(hits, total) ==
  [num |-> hits \div GCD(hits, total), den |-> total \div GCD(hits, total)]

(* A faulty rate: the misses over the total. *)
RateOfMisses(hits, misses) ==
  IF hits + misses = 0 THEN Quotient(0, 1) ELSE Quotient(misses, hits + misses)

(* total := hits + misses; if total == 0 { return 0.0 }; the quotient *)
Rate(hits, misses) ==
  IF hits + misses = 0 THEN Quotient(0, 1) ELSE Quotient(hits, hits + misses)

(* ec.mu.Lock(); hits := atomic.LoadUint64(&ec.stats.Hits) *)
HitRateHits(t) ==
  /\ Idle(t) /\ ops < MaxOps
  /\ mu = "free"
  /\ mu' = t
  /\ pc' = [pc EXCEPT ![t] = "hitrate_misses"]
  /\ ret' = [ret EXCEPT ![t] = [op |-> "partial", Hits |-> stats.Hits]]
  /\ ops' = ops + 1
  /\ hist' = [hist EXCEPT !.snaps = {stats}]
  /\ UNCHANGED <<cache, heap, lru, maxSize, stats, key, val, cachePtr,
                 preMap>>
  /\ UNCHANGED <<frame, regVars, replVars, regexPool>>

(* misses := atomic.LoadUint64(&ec.stats.Misses); the rate is computed *)
HitRateMisses(t) ==
  /\ pc[t] = "hitrate_misses"
  /\ pc' = [pc EXCEPT ![t] = "hitrate_unlock"]
  /\ ret' = [ret EXCEPT ![t] = [op |-> "HitRate", Hits |-> ret[t].Hits,
                                Misses |-> stats.Misses,
                                rate |-> Rate(ret[t].Hits, stats.Misses)]]
  /\ UNCHANGED <<cache, heap, lru, maxSize, stats, mu, key, val, cachePtr,
                 preMap, ops, hist>>
  /\ UNCHANGED <<frame, regVars, replVars, regexPool>>

(* the deferred ec.mu.Unlock(), and return *)
HitRateUnlock(t) ==
  /\ pc[t] = "hitrate_unlock"
  /\ mu' = "free"
  /\ hist' = [Returned(hist) EXCEPT !.snaps = {}]
  /\ Return(t)
  /\ UNCHANGED <<cache, heap, lru, maxSize, stats, cachePtr, ops>>
  /\ UNCHANGED <<regVars, replVars, regexPool>>

(* ------------------------ package gotime: Year ------------------------- *)
(* t.Era(): CE if no era is set *)
TimeEra(e) == IF e = 0 THEN CE ELSE e

(* era := t.Era(); if era == CE() { return t.Time.Year() }; ceYear := ... *)
YearCall(t, y, e) ==
  /\ Idle(t) /\ frame[t] = NoFrame /\ ops < MaxOps
  /\ frame' = [frame EXCEPT ![t] =
       IF TimeEra(e) = CE
       THEN [fn |-> "Year", ceYear |-> y, era |-> CE, at |-> "done",
             result |-> y, hit |-> FALSE]
       ELSE [fn |-> "Year", ceYear |-> y, era |-> e, at |-> "get",
             result |-> None, hit |-> FALSE]]
  /\ UNCHANGED <<cacheVars, regVars, replVars, regexPool>>

(* globalEraCache.Get(ceYear, unsafe.Pointer(era)) is called *)
YearGet(t) ==
  /\ frame[t].fn = "Year" /\ frame[t].at = "get"
  /\ GetLoadPtr(t, cacheKey(frame[t].ceYear, frame[t].era))

(* eraYear := era.FromCE(ceYear); globalEraCache.Set(...) is called *)
YearSet(t) ==
  /\ frame[t].fn = "Year" /\ frame[t].at = "miss"
  /\ SetLock(t, cacheKey(frame[t].ceYear, frame[t].era),
             FromCE(eraObj[frame[t].era], frame[t].ceYear))

(* return eraYear *)
YearReturn(t) ==
  /\ Idle(t)
  /\ frame[t].fn = "Year" /\ frame[t].at = "done"
  /\ frame' = [frame EXCEPT ![t] = NoFrame]
  /\ UNCHANGED <<cacheVars, regVars, replVars, regexPool>>

(* ------------------- package gotime: the era registry ------------------ *)
(* ClearEraCache(): globalEraCache.Clear() is called *)
ClearEraCache(t) ==
  /\ frame[t] = NoFrame
  /\ ClearSwap(t)

(* EraCacheStats(): globalEraCache.Stats() is called *)
EraCacheStats(t) ==
  /\ frame[t] = NoFrame
  /\ StatsHits(t)

(* EraCacheHitRate(): globalEraCache.HitRate() is called *)
EraCacheHitRate(t) ==
  /\ frame[t] = NoFrame
  /\ HitRateHits(t)

(* RegisterEra(name, offset): erasMu.Lock() *)
RegisterEraLock(t, name, offset) ==
  /\ Idle(t) /\ frame[t] = NoFrame /\ ops < MaxOps
  /\ erasMu = "free" /\ erasReaders = {}
  /\ erasMu' = t
  /\ frame' = [frame EXCEPT ![t] =
       [fn |-> "RegisterEra", name |-> name, offset |-> offset, at |-> "check",
        result |-> 0, added |-> FALSE,
        known |-> name \in DOMAIN eras]]
  /\ UNCHANGED <<cacheVars, eras, erasReaders, eraObj, replVars, regexPool>>

(* A faulty RegisterEra: the name is registered anew even if it exists. *)
RegisterEraAddAnew(t) ==
  /\ frame[t].fn = "RegisterEra" /\ frame[t].at = "check"
  /\ Len(eraObj) < Cardinality(EraAddrs)
  /\ LET era == Len(eraObj) + 1 IN
       /\ eraObj' = Append(eraObj, Era(frame[t].name, frame[t].offset))
       /\ eras' = [n \in (DOMAIN eras) \cup {frame[t].name} |->
                     IF n = frame[t].name THEN era ELSE eras[n]]
       /\ frame' = [frame EXCEPT ![t].at = "clear", ![t].result = era,
                                 ![t].added = TRUE]
  /\ UNCHANGED <<cacheVars, erasMu, erasReaders, replVars, regexPool>>

(* if exists { return eras[name] }; era := &Era{...}; eras[name] = era *)
RegisterEraAdd(t) ==
  /\ frame[t].fn = "RegisterEra" /\ frame[t].at = "check"
  /\ IF frame[t].name \in DOMAIN eras
     THEN /\ frame' = [frame EXCEPT ![t].at = "unlock",
                                    ![t].result = eras[frame[t].name]]
          /\ UNCHANGED <<eras, eraObj>>
     ELSE LET era == Len(eraObj) + 1 IN
          /\ eraObj' = Append(eraObj, Era(frame[t].name, frame[t].offset))
          /\ eras' = [n \in (DOMAIN eras) \cup {frame[t].name} |->
                        IF n = frame[t].name THEN era ELSE eras[n]]
          /\ frame' = [frame EXCEPT ![t].at = "clear", ![t].result = era,
                                    ![t].added = TRUE]
  /\ UNCHANGED <<cacheVars, erasMu, erasReaders, replVars, regexPool>>

(* A faulty RegisterEra: the cache is left as it is. *)
RegisterEraNoClear(t) ==
  /\ frame[t].fn = "RegisterEra" /\ frame[t].at = "clear"
  /\ frame' = [frame EXCEPT ![t].at = "unlock"]
  /\ UNCHANGED <<cacheVars, regVars, replVars, regexPool>>

(* globalEraCache.Clear() is called, erasMu held *)
RegisterEraClear(t) ==
  /\ frame[t].fn = "RegisterEra" /\ frame[t].at = "clear"
  /\ ClearSwap(t)

(* The registration that returns is the first of its name. *)
Registered(h, f) ==
  [h EXCEPT !.firstReg[f.name] =
     IF @.addr = 0 THEN [addr |-> f.result, offset |-> f.offset] ELSE @]

(* the deferred erasMu.Unlock(); return era *)
RegisterEraUnlock(t) ==
  /\ Idle(t)
  /\ frame[t].fn = "RegisterEra" /\ frame[t].at = "unlock"
  /\ erasMu' = "free"
  /\ frame' = [frame EXCEPT ![t] = NoFrame]
  /\ hist' = Registered(hist, frame[t])
  /\ UNCHANGED <<cache, heap, lru, maxSize, stats, mu, pc, key, val, cachePtr,
                 ret, preMap, ops>>
  /\ UNCHANGED <<eras, erasReaders, eraObj, replVars, regexPool>>

(* RegisterEraWithOptions(options): if options.Name == "" { return nil } *)
RegisterEraWithOptionsNil(t, offset) ==
  /\ Idle(t) /\ frame[t] = NoFrame /\ ops < MaxOps
  /\ frame' = [frame EXCEPT ![t] =
       [fn |-> "RegisterEraWithOptions", name |-> "", offset |-> offset,
        at |-> "nil", result |-> 0, added |-> FALSE,
        known |-> "" \in DOMAIN eras]]
  /\ UNCHANGED <<cacheVars, regVars, replVars, regexPool>>

(* RegisterEraWithOptions(options), options.Name not empty: erasMu.Lock() *)
RegisterEraWithOptionsLock(t, name, offset) ==
  /\ Idle(t) /\ frame[t] = NoFrame /\ ops < MaxOps
  /\ name # ""
  /\ erasMu = "free" /\ erasReaders = {}
  /\ erasMu' = t
  /\ frame' = [frame EXCEPT ![t] =
       [fn |-> "RegisterEraWithOptions", name |-> name, offset |-> offset,
        at |-> "check", result |-> 0, added |-> FALSE,
        known |-> name \in DOMAIN eras]]
  /\ UNCHANGED <<cacheVars, eras, erasReaders, eraObj, replVars, regexPool>>

(* if exists { return existing }; era := &Era{...}; eras[options.Name] = era. *)
(* Of the fields of options, the name and the offset are the ones read by  *)
(* the callers here.                                                       *)
RegisterEraWithOptionsAdd(t) ==
  /\ frame[t].fn = "RegisterEraWithOptions" /\ frame[t].at = "check"
  /\ IF frame[t].name \in DOMAIN eras
     THEN /\ frame' = [frame EXCEPT ![t].at = "unlock",
                                    ![t].result = eras[frame[t].name]]
          /\ UNCHANGED <<eras, eraObj>>
     ELSE LET era == Len(eraObj) + 1 IN
          /\ eraObj' = Append(eraObj, Era(frame[t].name, frame[t].offset))
          /\ eras' = [n \in (DOMAIN eras) \cup {frame[t].name} |->
                        IF n = frame[t].name THEN era ELSE eras[n]]
          /\ frame' = [frame EXCEPT ![t].at = "clear", ![t].result = era,
                                    ![t].added = TRUE]
  /\ UNCHANGED <<cacheVars, erasMu, erasReaders, replVars, regexPool>>

(* globalEraCache.Clear() is called, erasMu held *)
RegisterEraWithOptionsClear(t) ==
  /\ frame[t].fn = "RegisterEraWithOptions" /\ frame[t].at = "clear"
  /\ ClearSwap(t)

(* the deferred erasMu.Unlock(); return era *)
RegisterEraWithOptionsUnlock(t) ==
  /\ Idle(t)
  /\ frame[t].fn = "RegisterEraWithOptions" /\ frame[t].at = "unlock"
  /\ erasMu' = "free"
  /\ frame' = [frame EXCEPT ![t] = NoFrame]
  /\ hist' = Registered(hist, frame[t])
  /\ UNCHANGED <<cache, heap, lru, maxSize, stats, mu, pc, key, val, cachePtr,
                 ret, preMap, ops>>
  /\ UNCHANGED <<eras, erasReaders, eraObj, replVars, regexPool>>

(* return nil *)
RegisterEraWithOptionsReturn(t) ==
  /\ frame[t].fn = "RegisterEraWithOptions" /\ frame[t].at = "nil"
  /\ frame' = [frame EXCEPT ![t] = NoFrame]
  /\ UNCHANGED <<cacheVars, regVars, replVars, regexPool>>

(* GetEra(name): erasMu.RLock() *)
GetEraRLock(t, name) ==
  /\ Idle(t) /\ frame[t] = NoFrame /\ ops < MaxOps
  /\ erasMu = "free"
  /\ erasReaders' = erasReaders \cup {t}
  /\ frame' = [frame EXCEPT ![t] =
       [fn |-> "GetEra", name |-> name, at |-> "read", result |-> 0]]
  /\ UNCHANGED <<cacheVars, eras, erasMu, eraObj, replVars, regexPool>>

(* eras[name]: nil if the name is not registered *)
GetEraRead(t) ==
  /\ frame[t].fn = "GetEra" /\ frame[t].at = "read"
  /\ frame' = [frame EXCEPT ![t].at = "unlock",
                            ![t].result = IF frame[t].name \in DOMAIN eras
                                          THEN eras[frame[t].name] ELSE 0]
  /\ UNCHANGED <<cacheVars, regVars, replVars, regexPool>>

(* the deferred erasMu.RUnlock(); return *)
GetEraRUnlock(t) ==
  /\ frame[t].fn = "GetEra" /\ frame[t].at = "unlock"
  /\ erasReaders' = erasReaders \ {t}
  /\ frame' = [frame EXCEPT ![t] = NoFrame]
  /\ UNCHANGED <<cacheVars, eras, erasMu, eraObj, replVars, regexPool>>

(* ------------------------ StringReplacer.Replace ----------------------- *)
(* Replace(s) is called: the fast path, or estimatedCap is computed *)
ReplaceCall(t, s) ==
  /\ rcall[t] = NoCall /\ ops < MaxCalls
  /\ ops' = ops + 1
  /\ rcall' = [rcall EXCEPT ![t] =
       [at     |-> IF HasNoReplacements(sr.replacements) THEN "ret" ELSE "get",
        fn     |-> "Replace",
        s      |-> s,
        hint   |-> EstimatedCap(s),
        sb     |-> 0,          \* the address of the builder, 0 before Get
        old    |-> <<>>,       \* observer: what the builder held when Get took it
        arr    |-> 0,          \* the array the string returned lies in
        i      |-> 0,
        result |-> IF HasNoReplacements(sr.replacements) THEN s ELSE <<>>,
        n      |-> 0,          \* observer: the iterations of the scan loop done
        spans  |-> <<>>]]      \* observer: what each iteration consumed and wrote
  /\ UNCHANGED <<cacheState, frame, regVars, sr, pool, builders, regexPool>>

(* builderPool.Get: atomic.AddInt64(&bp.stats.Gets, 1) *)
BuilderPoolGetCount(t) ==
  /\ rcall[t].at = "get"
  /\ pool' = [pool EXCEPT !.Gets = @ + 1]
  /\ rcall' = [rcall EXCEPT ![t].at = "take"]
  /\ UNCHANGED <<cacheVars, frame, regVars, sr, builders, regexPool>>

(* Where a call goes on when Get has returned the builder. *)
AfterGet(c) ==
  CASE c.fn = "Replace" -> "loop"
    [] c.fn = "replaceYearInFormatted" -> "year_loop"
    [] OTHER -> "held"

(* b := bp.pool.Get(), a pooled builder or a new one; b.Reset(); the Grow *)
(* under the capacity test; return b                                      *)
BuilderPoolGetTake(t) ==
  /\ rcall[t].at = "take"
  /\ \/ \E j \in 1..Len(pool.free) :
          LET b == pool.free[j] IN
          /\ pool' = [pool EXCEPT !.free = PoolRemove(@, j)]
          /\ builders' = [builders EXCEPT
               ![b] = GetGrow(Reset(@), rcall[t].hint)]
          /\ rcall' = [rcall EXCEPT ![t].at = AfterGet(rcall[t]), ![t].sb = b,
                                    ![t].old = builders[b].buf]
     \/ LET b == NewBuilderAddr(builders) IN
          /\ pool' = [pool EXCEPT !.Allocates = @ + 1]
          /\ builders' = Append(builders,
               GetGrow(Reset(Grow(NewBuilder, DefaultBuilderCapacity)),
                       rcall[t].hint))
          /\ rcall' = [rcall EXCEPT ![t].at = AfterGet(rcall[t]), ![t].sb = b]
  /\ UNCHANGED <<cacheVars, frame, regVars, sr, regexPool>>

(* A faulty scan: the replacement is put into the text in place of the     *)
(* match and the scan goes on where the match began.                       *)
ReplaceIterRescans(t) ==
  /\ rcall[t].at = "loop"
  /\ rcall[t].i < Len(rcall[t].s)
  /\ rcall[t].n <= MaxLen
  /\ LET c == rcall[t]
         j == FirstMatch(sr.replacements, c.s, c.i)
     IN IF j # 0
        THEN LET r == sr.replacements[j] IN
             /\ builders' = builders
             /\ rcall' = [rcall EXCEPT
                  ![t].s = SubSeq(c.s, 1, c.i) \o r.to
                           \o SubSeq(c.s, c.i + r.len + 1, Len(c.s)),
                  ![t].n = @ + 1,
                  ![t].spans = Append(@, [from |-> c.i, len |-> r.len,
                                          out |-> r.to, rep |-> j])]
        ELSE /\ builders' = [builders EXCEPT ![c.sb] = WriteByte(@, c.s[c.i + 1])]
             /\ rcall' = [rcall EXCEPT
                  ![t].i = c.i + 1,
                  ![t].n = @ + 1,
                  ![t].spans = Append(@, [from |-> c.i, len |-> 1,
                                          out |-> <<c.s[c.i + 1]>>, rep |-> 0])]
  /\ UNCHANGED <<cacheVars, frame, regVars, sr, pool, regexPool>>

(* one iteration of the scan loop *)
ReplaceIter(t) ==
  /\ rcall[t].at = "loop"
  /\ rcall[t].i < Len(rcall[t].s)
  /\ rcall[t].n <= MaxLen
  /\ LET c == rcall[t]
         j == FirstMatch(sr.replacements, c.s, c.i)
     IN IF j # 0
        THEN LET r == sr.replacements[j] IN
             /\ builders' = [builders EXCEPT ![c.sb] = WriteString(@, r.to)]
             /\ rcall' = [rcall EXCEPT
                  ![t].i = c.i + r.len,
                  ![t].n = @ + 1,
                  ![t].spans = Append(@, [from |-> c.i, len |-> r.len,
                                          out |-> r.to, rep |-> j])]
        ELSE /\ builders' = [builders EXCEPT ![c.sb] = WriteByte(@, c.s[c.i + 1])]
             /\ rcall' = [rcall EXCEPT
                  ![t].i = c.i + 1,
                  ![t].n = @ + 1,
                  ![t].spans = Append(@, [from |-> c.i, len |-> 1,
                                          out |-> <<c.s[c.i + 1]>>, rep |-> 0])]
  /\ UNCHANGED <<cacheVars, frame, regVars, sr, pool, regexPool>>

(* the loop ends; return sb.String() is evaluated *)
ReplaceString(t) ==
  /\ rcall[t].at = "loop"
  /\ rcall[t].i >= Len(rcall[t].s)
  /\ rcall' = [rcall EXCEPT ![t].at = "put",
                            ![t].result = builders[rcall[t].sb].buf,
                            ![t].arr = ArrayOf(builders[rcall[t].sb])]
  /\ UNCHANGED <<cacheVars, frame, regVars, sr, pool, builders, regexPool>>

(* A faulty Put that counts a nil builder. *)
BuilderPoolPutNilCounts(t) ==
  /\ rcall[t].at = "put" /\ rcall[t].sb = 0
  /\ pool' = [pool EXCEPT !.Puts = @ + 1]
  /\ rcall' = [rcall EXCEPT ![t].at = "ret"]
  /\ UNCHANGED <<cacheVars, frame, regVars, sr, builders, regexPool>>

(* Put(nil): if b == nil { return } *)
BuilderPoolPutNil(t) ==
  /\ rcall[t].at = "put" /\ rcall[t].sb = 0
  /\ rcall' = [rcall EXCEPT ![t].at = "ret"]
  /\ UNCHANGED <<cacheVars, frame, regVars, sr, pool, builders, regexPool>>

(* Put(b) of a builder, Replace's deferred builderPool.Put(sb) included:  *)
(* atomic.AddInt64(&bp.stats.Puts, 1)                                     *)
BuilderPoolPutCount(t) ==
  /\ rcall[t].at = "put" /\ rcall[t].sb # 0
  /\ pool' = [pool EXCEPT !.Puts = @ + 1]
  /\ rcall' = [rcall EXCEPT ![t].at = "give"]
  /\ UNCHANGED <<cacheVars, frame, regVars, sr, builders, regexPool>>

(* A faulty Put that pools a builder of any capacity. *)
BuilderPoolPutGiveAny(t) ==
  /\ rcall[t].at = "give"
  /\ pool' = [pool EXCEPT !.free = Append(@, rcall[t].sb)]
  /\ rcall' = [rcall EXCEPT ![t].at = "ret"]
  /\ UNCHANGED <<cacheVars, frame, regVars, sr, builders, regexPool>>

(* if b.Cap() > MaxBuilderCapacity { return }; bp.pool.Put(b) *)
BuilderPoolPutGive(t) ==
  /\ rcall[t].at = "give"
  /\ pool' = IF builders[rcall[t].sb].cap > MaxBuilderCapacity THEN pool
             ELSE [pool EXCEPT !.free = Append(@, rcall[t].sb)]
  /\ rcall' = [rcall EXCEPT ![t].at = "ret"]
  /\ UNCHANGED <<cacheVars, frame, regVars, sr, builders, regexPool>>

(* Replace returns: its caller goes on with the result *)
ReplaceReturn(t) ==
  /\ rcall[t].at = "ret"
  /\ frame' = [frame EXCEPT ![t] = Resume(@, NoRet, rcall[t].result)]
  /\ rcall' = [rcall EXCEPT ![t] = NoCall]
  /\ UNCHANGED <<cacheVars, regVars, sr, pool, builders, regexPool>>

(* ------------------------ callers of a BuilderPool --------------------- *)
(* What a caller of the pool has in hand. *)
PoolCall(at, capacityHint, b) ==
  [at |-> at, fn |-> "pool", s |-> <<>>, hint |-> capacityHint, sb |-> b,
   old |-> <<>>, arr |-> 0, i |-> 0, result |-> <<>>, n |-> 0, spans |-> <<>>]

(* bp.Get(capacityHint) is called *)
GetCall(t, capacityHint) ==
  /\ rcall[t] = NoCall /\ ops < MaxPoolCalls
  /\ ops' = ops + 1
  /\ rcall' = [rcall EXCEPT ![t] = PoolCall("get", capacityHint, 0)]
  /\ UNCHANGED <<cacheState, frame, regVars, sr, pool, builders, regexPool>>

(* b.WriteString(str) on the builder Get returned *)
BuilderWrite(t, str) ==
  /\ rcall[t].at = "held" /\ rcall[t].n < MaxWrites
  /\ builders' = [builders EXCEPT ![rcall[t].sb] = WriteString(@, str)]
  /\ rcall' = [rcall EXCEPT ![t].n = @ + 1]
  /\ UNCHANGED <<cacheVars, frame, regVars, sr, pool, regexPool>>

(* bp.Put(b) is called with the builder Get returned *)
PutCall(t) ==
  /\ rcall[t].at = "held"
  /\ rcall' = [rcall EXCEPT ![t].at = "put"]
  /\ UNCHANGED <<cacheVars, frame, regVars, sr, pool, builders, regexPool>>

(* bp.Put(nil) is called *)
PutNilCall(t) ==
  /\ rcall[t] = NoCall /\ ops < MaxPoolCalls
  /\ ops' = ops + 1
  /\ rcall' = [rcall EXCEPT ![t] = PoolCall("put", 0, 0)]
  /\ UNCHANGED <<cacheState, frame, regVars, sr, pool, builders, regexPool>>

(* ----------------- package gotime: replaceYearInFormatted -------------- *)
(* replaceYearInFormatted(formatted, eraYear) is called: yearStr and       *)
(* shortYearStr are made, refDate is read under yearFormatMu.RLock() (or   *)
(* is time.Now()) and currentShortYear is made of its year                 *)
YearReplaceCall(t, formatted, eraYear, refYear) ==
  /\ rcall[t] = NoCall /\ pool.Gets < MaxFormats
  /\ rcall' = [rcall EXCEPT ![t] =
       [at     |-> "get",
        fn     |-> "replaceYearInFormatted",
        s      |-> formatted,
        hint   |-> Len(formatted) + 4,
        sb     |-> 0,
        old    |-> <<>>,
        arr    |-> 0,
        i      |-> 0,
        result |-> <<>>,
        n      |-> 0,
        spans  |-> <<>>,
        eraYear |-> eraYear,
        yearStr |-> AppendZeros(AppendInt(eraYear), 4),
        shortYearStr |-> AppendZeros(AppendInt(eraYear % 100), 2),
        currentShortYear |-> CurrentShortYear(refYear)]]
  /\ UNCHANGED <<cacheVars, frame, regVars, sr, pool, builders, regexPool>>

(* one iteration of the loop over formatted *)
YearReplaceIter(t) ==
  /\ rcall[t].at = "year_loop"
  /\ rcall[t].i < Len(rcall[t].s)
  /\ LET c == rcall[t] IN
     IF FourDigitYearAt(c.s, c.i)
     THEN /\ builders' = [builders EXCEPT ![c.sb] = WriteString(@, c.yearStr)]
          /\ rcall' = [rcall EXCEPT
               ![t].i = c.i + 4,
               ![t].spans = Append(@, [from |-> c.i, len |-> 4, out |-> c.yearStr])]
     ELSE IF TwoDigitYearAt(c.s, c.i, c.currentShortYear)
     THEN /\ builders' = [builders EXCEPT ![c.sb] = WriteString(@, c.shortYearStr)]
          /\ rcall' = [rcall EXCEPT
               ![t].i = c.i + 2,
               ![t].spans = Append(@, [from |-> c.i, len |-> 2,
                                       out |-> c.shortYearStr])]
     ELSE /\ builders' = [builders EXCEPT ![c.sb] = WriteByte(@, c.s[c.i + 1])]
          /\ rcall' = [rcall EXCEPT
               ![t].i = c.i + 1,
               ![t].spans = Append(@, [from |-> c.i, len |-> 1,
                                       out |-> <<c.s[c.i + 1]>>])]
  /\ UNCHANGED <<cacheVars, frame, regVars, sr, pool, regexPool>>

(* the loop ends; return resultBuilder.String() is evaluated *)
YearReplaceString(t) ==
  /\ rcall[t].at = "year_loop"
  /\ rcall[t].i >= Len(rcall[t].s)
  /\ rcall' = [rcall EXCEPT ![t].at = "put",
                            ![t].result = builders[rcall[t].sb].buf,
                            ![t].arr = ArrayOf(builders[rcall[t].sb])]
  /\ UNCHANGED <<cacheVars, frame, regVars, sr, pool, builders, regexPool>>

(* ------------------------ package gotime: Format ----------------------- *)
(* t.Format(layout): era := t.Era(); ceYear := t.Time.Year();              *)
(* if era == CE() { return t.Time.Format(layout) }                         *)
FormatCall(t, tm, e, layout) ==
  /\ Idle(t) /\ frame[t] = NoFrame /\ rcall[t] = NoCall
  /\ ops < MaxOps /\ pool.Gets < MaxFormats
  /\ frame' = [frame EXCEPT ![t] =
       [fn |-> "Format", time |-> tm, layout |-> layout, era |-> TimeEra(e),
        at |-> IF TimeEra(e) = CE THEN "done" ELSE "get",
        eraYear |-> None,
        result |-> IF TimeEra(e) = CE THEN TimeFormat(tm, layout) ELSE <<>>]]
  /\ UNCHANGED <<cacheVars, regVars, replVars, regexPool>>

(* globalEraCache.Get(ceYear, unsafe.Pointer(era)) is called *)
FormatGet(t) ==
  /\ frame[t].fn = "Format" /\ frame[t].at = "get"
  /\ GetLoadPtr(t, cacheKey(frame[t].time.year, frame[t].era))

(* eraYear := era.FromCE(ceYear); globalEraCache.Set(...) is called *)
FormatSet(t) ==
  /\ frame[t].fn = "Format" /\ frame[t].at = "miss"
  /\ SetLock(t, cacheKey(frame[t].time.year, frame[t].era),
             FromCE(eraObj[frame[t].era], frame[t].time.year))

(* formatted := t.Time.Format(layout); replaceYearInFormatted(formatted,   *)
(* eraYear) is called                                                      *)
FormatReplace(t) ==
  /\ frame[t].fn = "Format" /\ frame[t].at = "replace"
  /\ Idle(t)
  /\ \E refYear \in RefYears :
       YearReplaceCall(t, TimeFormat(frame[t].time, frame[t].layout),
                       frame[t].eraYear, refYear)

(* return of the formatted text *)
FormatReturn(t) ==
  /\ Idle(t)
  /\ frame[t].fn = "Format" /\ frame[t].at = "done"
  /\ frame' = [frame EXCEPT ![t] = NoFrame]
  /\ UNCHANGED <<cacheVars, regVars, replVars, regexPool>>

(* ------------------- BuilderPool.Stats and ResetStats ------------------ *)
(* PoolStats.HitRate(): 0.0 if s.Gets is 0, else (Gets - Allocates) / Gets *)
PoolHitRate(s) ==
  IF s.Gets = 0 THEN Quotient(0, 1) ELSE Quotient(s.Gets - s.Allocates, s.Gets)

(* bp.Stats() is called: Gets: atomic.LoadInt64(&bp.stats.Gets) *)
PoolStatsGets(t) ==
  /\ rcall[t] = NoCall /\ ops < MaxPoolCalls
  /\ ops' = ops + 1
  /\ rcall' = [rcall EXCEPT ![t] =
       [at |-> "stats_puts", fn |-> "Stats", Gets |-> pool.Gets, Puts |-> 0,
        Allocates |-> 0]]
  /\ UNCHANGED <<cacheState, frame, regVars, sr, pool, builders, regexPool>>

(* Puts: atomic.LoadInt64(&bp.stats.Puts) *)
PoolStatsPuts(t) ==
  /\ rcall[t].at = "stats_puts"
  /\ rcall' = [rcall EXCEPT ![t].at = "stats_allocates", ![t].Puts = pool.Puts]
  /\ UNCHANGED <<cacheVars, frame, regVars, sr, pool, builders, regexPool>>

(* Allocates: atomic.LoadInt64(&bp.stats.Allocates); return PoolStats{...} *)
PoolStatsAllocates(t) ==
  /\ rcall[t].at = "stats_allocates"
  /\ rcall' = [rcall EXCEPT ![t] =
       [at |-> "stats_ret", fn |-> "Stats", Gets |-> rcall[t].Gets,
        Puts |-> rcall[t].Puts, Allocates |-> pool.Allocates,
        rate |-> PoolHitRate([Gets |-> rcall[t].Gets,
                              Allocates |-> pool.Allocates])]]
  /\ UNCHANGED <<cacheVars, frame, regVars, sr, pool, builders, regexPool>>

(* the caller has the snapshot and its HitRate() and goes on *)
PoolStatsReturn(t) ==
  /\ rcall[t].at = "stats_ret"
  /\ rcall' = [rcall EXCEPT ![t] = NoCall]
  /\ UNCHANGED <<cacheVars, frame, regVars, sr, pool, builders, regexPool>>

(* bp.ResetStats() is called: atomic.StoreInt64(&bp.stats.Gets, 0) *)
ResetStatsGets(t) ==
  /\ rcall[t] = NoCall /\ ops < MaxPoolCalls
  /\ ops' = ops + 1
  /\ pool' = [pool EXCEPT !.Gets = 0]
  /\ rcall' = [rcall EXCEPT ![t] = [at |-> "reset_puts", fn |-> "ResetStats"]]
  /\ UNCHANGED <<cacheState, frame, regVars, sr, builders, regexPool>>

(* atomic.StoreInt64(&bp.stats.Puts, 0) *)
ResetStatsPuts(t) ==
  /\ rcall[t].at = "reset_puts"
  /\ pool' = [pool EXCEPT !.Puts = 0]
  /\ rcall' = [rcall EXCEPT ![t].at = "reset_allocates"]
  /\ UNCHANGED <<cacheVars, frame, regVars, sr, builders, regexPool>>

(* atomic.StoreInt64(&bp.stats.Allocates, 0), and return *)
ResetStatsAllocates(t) ==
  /\ rcall[t].at = "reset_allocates"
  /\ pool' = [pool EXCEPT !.Allocates = 0]
  /\ rcall' = [rcall EXCEPT ![t] = NoCall]
  /\ UNCHANGED <<cacheVars, frame, regVars, sr, builders, regexPool>>

(* ---------------------- StringReplacer.ReplaceAll ---------------------- *)
(* ReplaceAll(s) is called *)
ReplaceAllCall(t, s) ==
  /\ frame[t] = NoFrame /\ rcall[t] = NoCall /\ ops < MaxCalls
  /\ frame' = [frame EXCEPT ![t] = [fn |-> "ReplaceAll", at |-> "call", s |-> s, result |-> <<>>]]
  /\ UNCHANGED <<cacheVars, regVars, replVars, regexPool>>

(* A faulty ReplaceAll that hands Replace the empty string. *)
ReplaceAllReplaceEmpty(t) ==
  /\ frame[t].fn = "ReplaceAll" /\ frame[t].at = "call"
  /\ ReplaceCall(t, <<>>)

(* sr.Replace(s) *)
ReplaceAllReplace(t) ==
  /\ frame[t].fn = "ReplaceAll" /\ frame[t].at = "call"
  /\ ReplaceCall(t, frame[t].s)

(* return of what Replace returned *)
ReplaceAllReturn(t) ==
  /\ frame[t].fn = "ReplaceAll" /\ frame[t].at = "done"
  /\ frame' = [frame EXCEPT ![t] = NoFrame]
  /\ UNCHANGED <<cacheVars, regVars, replVars, regexPool>>

(* ------------------------------ RegexPool ------------------------------ *)
(* The pool NewRegexPool returns: its sync.Pool is empty. *)
RegexPoolOf(pattern) ==
  [pattern |-> pattern,
   free    |-> {},     \* the matchers in the sync.Pool
   made    |-> 0,      \* the copies New has made
   out     |-> {},     \* observer: the matchers that convenience operations hold
   panics  |-> FALSE]  \* observer: an operation has panicked

(* What a call on the RegexPool, or of NewRegexPool, has in hand: the     *)
(* pattern of the pool or the one given, re the matcher checked out (0:   *)
(* none), panicking whether a panic unwinds.                              *)
RegexCall(fn, pattern, at, re, panicking) ==
  [fn |-> fn, pattern |-> pattern, at |-> at, re |-> re, panicking |-> panicking]

(* A faulty NewRegexPool that ignores the error of regexp.Compile. *)
NewRegexPoolNoPanic(t, pattern) ==
  /\ frame[t] = NoFrame /\ ops < MaxRegexCalls
  /\ regexPool = NoRegexPool
  /\ ops' = ops + 1
  /\ frame' = [frame EXCEPT ![t] = RegexCall("NewRegexPool", pattern, "ret", 0, FALSE)]
  /\ regexPool' = RegexPoolOf(pattern)
  /\ UNCHANGED <<cacheState, regVars, replVars>>

(* NewRegexPool(pattern): regexp.Compile, panic on its error, else the    *)
(* pool object with an empty sync.Pool; the caller makes one pool         *)
NewRegexPool(t, pattern) ==
  /\ frame[t] = NoFrame /\ ops < MaxRegexCalls
  /\ regexPool = NoRegexPool \/ CompileFails(pattern)
  /\ ops' = ops + 1
  /\ IF CompileFails(pattern)
     THEN /\ frame' = [frame EXCEPT ![t] =
                 RegexCall("NewRegexPool", pattern, "unwind", 0, TRUE)]
          /\ UNCHANGED regexPool
     ELSE /\ frame' = [frame EXCEPT ![t] =
                 RegexCall("NewRegexPool", pattern, "ret", 0, FALSE)]
          /\ regexPool' = RegexPoolOf(pattern)
  /\ UNCHANGED <<cacheState, regVars, replVars>>

(* A convenience operation, or Get, is called on the pool. *)
RegexPoolCall(t, fn) ==
  /\ frame[t] = NoFrame /\ ops < MaxRegexCalls
  /\ regexPool # NoRegexPool
  /\ ops' = ops + 1
  /\ frame' = [frame EXCEPT ![t] = RegexCall(fn, regexPool.pattern, "get", 0, FALSE)]
  /\ UNCHANGED <<cacheState, regVars, replVars, regexPool>>

(* Where a call goes on when Get has returned the matcher. *)
AfterRegexGet(fn) == IF fn = "Get" THEN "held" ELSE "run"

(* rp.Get(): a pooled matcher or a new copy of the compiled pattern; in a *)
(* convenience operation, defer rp.Put(re) follows                        *)
RegexPoolGet(t) ==
  /\ frame[t].fn \in RegexOps \cup {"Get"} /\ frame[t].at = "get"
  /\ \/ \E m \in regexPool.free :
          /\ regexPool' = [regexPool EXCEPT
               !.free = @ \ {m},
               !.out = IF frame[t].fn = "Get" THEN @ ELSE @ \cup {m}]
          /\ frame' = [frame EXCEPT ![t].at = AfterRegexGet(frame[t].fn), ![t].re = m]
     \/ LET m == regexPool.made + 1 IN
          /\ regexPool' = [regexPool EXCEPT
               !.made = m,
               !.out = IF frame[t].fn = "Get" THEN @ ELSE @ \cup {m}]
          /\ frame' = [frame EXCEPT ![t].at = AfterRegexGet(frame[t].fn), ![t].re = m]
  /\ UNCHANGED <<cacheVars, regVars, replVars>>

(* A faulty operation whose panic skips the Put. *)
RegexRunNoDefer(t) ==
  /\ frame[t].fn \in RegexOps /\ frame[t].at = "run"
  /\ \/ frame' = [frame EXCEPT ![t].at = "put"] /\ UNCHANGED regexPool
     \/ /\ frame' = [frame EXCEPT ![t].at = "unwind", ![t].panicking = TRUE]
        /\ regexPool' = [regexPool EXCEPT !.panics = TRUE]
  /\ UNCHANGED <<cacheVars, regVars, replVars>>

(* The operation of the matcher runs: it returns, or it panics (the       *)
(* caller's callback may); either way the deferred Put runs next          *)
RegexRun(t) ==
  /\ frame[t].fn \in RegexOps /\ frame[t].at = "run"
  /\ \/ frame' = [frame EXCEPT ![t].at = "put"] /\ UNCHANGED regexPool
     \/ /\ frame' = [frame EXCEPT ![t].at = "put", ![t].panicking = TRUE]
        /\ regexPool' = [regexPool EXCEPT !.panics = TRUE]
  /\ UNCHANGED <<cacheVars, regVars, replVars>>

(* rp.Put(re) is called with the matcher Get returned *)
RegexPutCall(t) ==
  /\ frame[t].fn = "Get" /\ frame[t].at = "held"
  /\ frame' = [frame EXCEPT ![t].fn = "Put", ![t].at = "put"]
  /\ UNCHANGED <<cacheVars, regVars, replVars, regexPool>>

(* rp.Put(re): rp.pool.Put(re); then the return, or the panic goes on *)
RegexPoolPut(t) ==
  /\ frame[t].fn \in RegexOps \cup {"Put"} /\ frame[t].at = "put"
  /\ regexPool' = [regexPool EXCEPT !.free = @ \cup {frame[t].re},
                                    !.out = @ \ {frame[t].re}]
  /\ frame' = [frame EXCEPT ![t].at = IF frame[t].panicking THEN "unwind" ELSE "ret",
                            ![t].re = 0]
  /\ UNCHANGED <<cacheVars, regVars, replVars>>

(* The call returns, or its panic has left it. *)
RegexReturn(t) ==
  /\ frame[t].fn \in RegexOps \cup {"Put", "NewRegexPool"}
  /\ frame[t].at \in {"ret", "unwind"}
  /\ frame' = [frame EXCEPT ![t] = NoFrame]
  /\ UNCHANGED <<cacheVars, regVars, replVars, regexPool>>

(* --------------------------- specifications ---------------------------- *)
Step(t) ==
  \/ \E k \in Keys : GetLoadPtr(t, k)
  \/ GetLoad(t)
  \/ GetCount(t)
  \/ \E k \in Keys, v \in Vals : SetLock(t, k, v)
  \/ SetEvict(t)
  \/ SetStore(t)
  \/ SetAddToFront(t)
  \/ SetUnlock(t)
  \/ ClearSwap(t)
  \/ ClearList(t)
  \/ ClearHits(t)
  \/ ClearMisses(t)
  \/ ClearEvictions(t)
  \/ ClearUnlock(t)
  \/ StatsHits(t)
  \/ StatsMisses(t)
  \/ StatsEvictions(t)
  \/ StatsUnlock(t)
  \/ HitRateHits(t)
  \/ HitRateMisses(t)
  \/ HitRateUnlock(t)

(* One caller: the methods run one after another. *)
Next == Step(MainThread)

Spec == Init /\ [][Next]_vars

(* One caller of a cache made with any argument, negative ones included. *)
InitAnySize ==
  InitCache((0 - MaxNegSize)..MaxCap) /\ InitGotime /\ InitNoReplacer /\ InitRegex

SpecAnySize == InitAnySize /\ [][Next]_vars

(* Several callers: the steps of their calls interleave. *)
NextConc == \E t \in Threads : Step(t)

SpecConc == Init /\ [][NextConc]_vars

(* Callers of package gotime: Year on times of every era, ClearEraCache   *)
(* and RegisterEra, over a global cache of any capacity.                  *)
StepGotime(t) ==
  \/ \E y \in Years, e \in {0} \cup DOMAIN eraObj : YearCall(t, y, e)
  \/ YearGet(t)
  \/ GetLoad(t)
  \/ GetCount(t)
  \/ YearSet(t)
  \/ SetEvict(t)
  \/ SetStore(t)
  \/ SetAddToFront(t)
  \/ SetUnlock(t)
  \/ YearReturn(t)
  \/ ClearEraCache(t)
  \/ ClearList(t)
  \/ ClearHits(t)
  \/ ClearMisses(t)
  \/ ClearEvictions(t)
  \/ ClearUnlock(t)
  \/ \E n \in Names, o \in Offsets : RegisterEraLock(t, n, o)
  \/ RegisterEraAdd(t)
  \/ RegisterEraClear(t)
  \/ RegisterEraUnlock(t)

NextGotime == \E t \in Threads : StepGotime(t)

SpecGotime == Init /\ [][NextGotime]_vars

(* Callers of the whole of package gotime's registry and cache functions. *)
StepRegistry(t) ==
  \/ \E y \in Years, e \in {0} \cup DOMAIN eraObj : YearCall(t, y, e)
  \/ YearGet(t)
  \/ GetLoad(t)
  \/ GetCount(t)
  \/ YearSet(t)
  \/ SetEvict(t)
  \/ SetStore(t)
  \/ SetAddToFront(t)
  \/ SetUnlock(t)
  \/ YearReturn(t)
  \/ ClearEraCache(t)
  \/ ClearList(t)
  \/ ClearHits(t)
  \/ ClearMisses(t)
  \/ ClearEvictions(t)
  \/ ClearUnlock(t)
  \/ EraCacheStats(t)
  \/ StatsMisses(t)
  \/ StatsEvictions(t)
  \/ StatsUnlock(t)
  \/ EraCacheHitRate(t)
  \/ HitRateMisses(t)
  \/ HitRateUnlock(t)
  \/ \E n \in OptionNames, o \in Offsets : RegisterEraLock(t, n, o)
  \/ RegisterEraAdd(t)
  \/ RegisterEraClear(t)
  \/ RegisterEraUnlock(t)
  \/ \E o \in Offsets : RegisterEraWithOptionsNil(t, o)
  \/ \E n \in OptionNames, o \in Offsets : RegisterEraWithOptionsLock(t, n, o)
  \/ RegisterEraWithOptionsAdd(t)
  \/ RegisterEraWithOptionsClear(t)
  \/ RegisterEraWithOptionsUnlock(t)
  \/ RegisterEraWithOptionsReturn(t)
  \/ \E n \in OptionNames : GetEraRLock(t, n)
  \/ GetEraRead(t)
  \/ GetEraRUnlock(t)

(* var globalEraCache = internal.NewEraCache(internal.DefaultMaxCacheSize) *)
InitGlobal ==
  InitCache({DefaultMaxCacheSize}) /\ InitGotime /\ InitNoReplacer /\ InitRegex

NextRegistry == \E t \in Threads : StepRegistry(t)

SpecRegistry == InitGlobal /\ [][NextRegistry]_vars

(* Callers of the functions that take erasMu and ec.mu: Year and Format on *)
(* a time of a registered era, ClearEraCache, EraCacheStats,               *)
(* EraCacheHitRate, RegisterEra of a registered and of a new name, GetEra. *)
LockNames == {"BE", "X"}
LockTime == CHOOSE tm \in Times : tm.year = MaxYear
LockLayout == <<"2006">>

StepLocks(t) ==
  \/ \E e \in DOMAIN eraObj : YearCall(t, MaxYear, e)
  \/ YearGet(t)
  \/ GetLoad(t)
  \/ GetCount(t)
  \/ YearSet(t)
  \/ SetEvict(t)
  \/ SetStore(t)
  \/ SetAddToFront(t)
  \/ SetUnlock(t)
  \/ YearReturn(t)
  \/ ClearEraCache(t)
  \/ ClearList(t)
  \/ ClearHits(t)
  \/ ClearMisses(t)
  \/ ClearEvictions(t)
  \/ ClearUnlock(t)
  \/ EraCacheStats(t)
  \/ StatsMisses(t)
  \/ StatsEvictions(t)
  \/ StatsUnlock(t)
  \/ EraCacheHitRate(t)
  \/ HitRateMisses(t)
  \/ HitRateUnlock(t)
  \/ \E n \in LockNames : RegisterEraLock(t, n, BEOffset)
  \/ RegisterEraAdd(t)
  \/ RegisterEraClear(t)
  \/ RegisterEraUnlock(t)
  \/ \E n \in LockNames : GetEraRLock(t, n)
  \/ GetEraRead(t)
  \/ GetEraRUnlock(t)
  \/ \E e \in DOMAIN eraObj : FormatCall(t, LockTime, e, LockLayout)
  \/ FormatGet(t)
  \/ FormatSet(t)
  \/ FormatReplace(t)
  \/ BuilderPoolGetCount(t)
  \/ BuilderPoolGetTake(t)
  \/ YearReplaceIter(t)
  \/ YearReplaceString(t)
  \/ BuilderPoolPutCount(t)
  \/ BuilderPoolPutGive(t)
  \/ ReplaceReturn(t)
  \/ FormatReturn(t)

NextLocks == \E t \in Threads : StepLocks(t)

(* The scheduler lets every thread that can take a step take one. *)
SpecLocks ==
  InitGlobal /\ [][NextLocks]_vars /\ \A t \in Threads : WF_vars(StepLocks(t))

(* One caller of them. *)
NextRegistryAlone == StepRegistry(MainThread)

SpecRegistryAlone == InitGlobal /\ [][NextRegistryAlone]_vars

(* Callers of one StringReplacer made from any map. *)
StepReplace(t) ==
  \/ \E s \in Inputs : ReplaceCall(t, s)
  \/ BuilderPoolGetCount(t)
  \/ BuilderPoolGetTake(t)
  \/ ReplaceIter(t)
  \/ ReplaceString(t)
  \/ BuilderPoolPutCount(t)
  \/ BuilderPoolPutGive(t)
  \/ ReplaceReturn(t)

InitReplace == InitCache({0}) /\ InitGotime /\ InitReplacer(Maps) /\ InitRegex

(* One caller. *)
NextReplace == StepReplace(MainThread)

(* One caller of Replace and of ReplaceAll. *)
NextReplaceAll ==
  \/ \E s \in Inputs : frame[MainThread] = NoFrame /\ ReplaceCall(MainThread, s)
  \/ \E s \in Inputs : ReplaceAllCall(MainThread, s)
  \/ ReplaceAllReplace(MainThread)
  \/ BuilderPoolGetCount(MainThread)
  \/ BuilderPoolGetTake(MainThread)
  \/ ReplaceIter(MainThread)
  \/ ReplaceString(MainThread)
  \/ BuilderPoolPutCount(MainThread)
  \/ BuilderPoolPutGive(MainThread)
  \/ ReplaceReturn(MainThread)
  \/ ReplaceAllReturn(MainThread)

SpecReplaceAll == InitReplace /\ [][NextReplaceAll]_vars

SpecReplace == InitReplace /\ [][NextReplace]_vars

(* One caller of a StringReplacer made from a map with overlapping patterns. *)
InitOverlap == InitCache({0}) /\ InitGotime /\ InitReplacer(OverlapMaps) /\ InitRegex

NextOverlap ==
  \/ \E s \in OverlapInputs : ReplaceCall(MainThread, s)
  \/ BuilderPoolGetCount(MainThread)
  \/ BuilderPoolGetTake(MainThread)
  \/ ReplaceIter(MainThread)
  \/ ReplaceString(MainThread)
  \/ BuilderPoolPutCount(MainThread)
  \/ BuilderPoolPutGive(MainThread)
  \/ ReplaceReturn(MainThread)

SpecOverlap == InitOverlap /\ [][NextOverlap]_vars

(* Several callers. *)
NextReplaceConc == \E t \in Threads : StepReplace(t)

SpecReplaceConc == InitReplace /\ [][NextReplaceConc]_vars

(* Several callers of replaceYearInFormatted on its own. *)
StepYearReplace(t) ==
  \/ \E f \in Formatteds, y \in EraYears, r \in RefYears :
       frame[t] = NoFrame /\ YearReplaceCall(t, f, y, r)
  \/ BuilderPoolGetCount(t)
  \/ BuilderPoolGetTake(t)
  \/ YearReplaceIter(t)
  \/ YearReplaceString(t)
  \/ BuilderPoolPutCount(t)
  \/ BuilderPoolPutGive(t)
  \/ ReplaceReturn(t)

NextYearReplaceConc == \E t \in Threads : StepYearReplace(t)

SpecYearReplaceConc == InitGlobal /\ [][NextYearReplaceConc]_vars

(* Callers of one BuilderPool: Get with any hint, writes, Put, Put(nil). *)
StepPool(t) ==
  \/ \E h \in Hints : GetCall(t, h)
  \/ BuilderPoolGetCount(t)
  \/ BuilderPoolGetTake(t)
  \/ \E str \in Writes : BuilderWrite(t, str)
  \/ PutCall(t)
  \/ PutNilCall(t)
  \/ BuilderPoolPutNil(t)
  \/ BuilderPoolPutCount(t)
  \/ BuilderPoolPutGive(t)
  \/ ReplaceReturn(t)

InitPool == InitCache({0}) /\ InitGotime /\ InitNoReplacer /\ InitRegex

NextPool == \E t \in Threads : StepPool(t)

SpecPool == InitPool /\ [][NextPool]_vars

(* Callers of Format on times of every era, and of replaceYearInFormatted *)
(* on its own.                                                            *)
StepFormat(t) ==
  \/ \E tm \in Times, e \in {0} \cup DOMAIN eraObj, l \in Layouts :
       FormatCall(t, tm, e, l)
  \/ FormatGet(t)
  \/ GetLoad(t)
  \/ GetCount(t)
  \/ FormatSet(t)
  \/ SetEvict(t)
  \/ SetStore(t)
  \/ SetAddToFront(t)
  \/ SetUnlock(t)
  \/ FormatReplace(t)
  \/ \E f \in Formatteds, y \in EraYears, r \in RefYears :
       frame[t] = NoFrame /\ YearReplaceCall(t, f, y, r)
  \/ BuilderPoolGetCount(t)
  \/ BuilderPoolGetTake(t)
  \/ YearReplaceIter(t)
  \/ YearReplaceString(t)
  \/ BuilderPoolPutCount(t)
  \/ BuilderPoolPutGive(t)
  \/ ReplaceReturn(t)
  \/ FormatReturn(t)

(* One caller. *)
NextFormat == StepFormat(MainThread)

SpecFormat == InitGlobal /\ [][NextFormat]_vars

(* Callers of one BuilderPool and of its statistics. *)
StepPoolStats(t) ==
  \/ \E h \in Hints : GetCall(t, h)
  \/ BuilderPoolGetCount(t)
  \/ BuilderPoolGetTake(t)
  \/ PutCall(t)
  \/ BuilderPoolPutCount(t)
  \/ BuilderPoolPutGive(t)
  \/ ReplaceReturn(t)
  \/ PoolStatsGets(t)
  \/ PoolStatsPuts(t)
  \/ PoolStatsAllocates(t)
  \/ PoolStatsReturn(t)
  \/ ResetStatsGets(t)
  \/ ResetStatsPuts(t)
  \/ ResetStatsAllocates(t)

NextPoolStats == \E t \in Threads : StepPoolStats(t)

SpecPoolStats == InitPool /\ [][NextPoolStats]_vars

(* Callers of NewRegexPool and of the pool it makes. *)
StepRegex(t) ==
  \/ \E p \in Patterns : NewRegexPool(t, p)
  \/ \E fn \in RegexOps \cup {"Get"} : RegexPoolCall(t, fn)
  \/ RegexPoolGet(t)
  \/ RegexRun(t)
  \/ RegexPutCall(t)
  \/ RegexPoolPut(t)
  \/ RegexReturn(t)

NextRegex == \E t \in Threads : StepRegex(t)

SpecRegex == InitPool /\ [][NextRegex]_vars

(* ------------------------------ claims --------------------------------- *)
ZeroStats == [Hits |-> 0, Misses |-> 0, Evictions |-> 0]

(* The step of Set that runs its eviction block and unlinks a node. *)
Evicts(t) ==
  /\ pc[t] = "set_evict"
  /\ pc'[t] = "set_store"
  /\ lru'.size < lru.size

\* C1: a Get of a key whose last Set(key, v) completed with no Clear and no
\* eviction of that key since then returns (v, true).
C1_GetAfterSet ==
  \A t \in Threads :
    (pc[t] = "get_count" /\ hist.lastSet[key[t]] # None)
      => (ret[t].ok /\ ret[t].val = hist.lastSet[key[t]])

\* C1 witness: after an eviction, a Get returns the value 1 a Set gave its key.
C1_Witness ==
  \E t \in Threads :
    /\ pc[t] = "get_count"
    /\ hist.lastSet[key[t]] = 1
    /\ ret[t].ok /\ ret[t].val = 1
    /\ stats.Evictions > 0

\* C2 (as claimed): when a Set has done its work, the backing map holds at most
\* maxSize entries, whatever the keys were.
C2_BoundedSize ==
  \A t \in Threads :
    pc[t] = "set_unlock" => Cardinality(DOMAIN CurrentMap) <= maxSize

\* C3 (as claimed): while only distinct keys have been Set into a cache that
\* started empty, the keys deleted so far are the first-inserted ones in
\* insertion order, one per insert beyond the maxSize-th, the eviction counter
\* counts exactly them, and the last-inserted key is in the map.
C3_EvictionOrder ==
  (hist.fresh /\ mu = "free") =>
    LET n == Len(hist.setLog)
        over == IF n > maxSize THEN n - maxSize ELSE 0
    IN /\ hist.evictLog = SubSeq(hist.setLog, 1, over)
       /\ stats.Evictions = over
       /\ n > 0 => hist.setLog[n] \in DOMAIN CurrentMap

\* C4 (as claimed): the first eviction after a Get hit on key k, made while
\* another key was tracked, does not remove k.
C4_GetPromotes ==
  [][\A t \in Threads :
       (Evicts(t) /\ hist.promoted # NoKey) => LeastRecentKey(lru) # hist.promoted]_vars

\* C5 (as claimed): outside Set and Clear, the eviction counter equals the
\* number of tracking nodes removed since the last Clear.
C5_EvictionCount == (mu = "free") => stats.Evictions = hist.removed

\* C6 (as claimed): a Set(k, v) called while k is cached with value v leaves the
\* backing map exactly as it was.
C6_SetIdempotent ==
  \A t \in Threads :
    (pc[t] = "set_unlock" /\ MapLoad(preMap[t], key[t]) = <<val[t], TRUE>>)
      => CurrentMap = preMap[t]

\* C7 (as claimed): when Set evicts while at least two keys are cached, the key
\* it deletes from the map is not the key the previous Set stored.
C7_VictimNotLastStored ==
  [][\A t \in Threads :
       (Evicts(t) /\ Cardinality(DOMAIN CurrentMap) >= 2 /\ CurrentMap' # CurrentMap)
         => LeastRecentKey(lru) # hist.lastStored]_vars

\* C8 (as claimed): when no Set or Clear is in progress, every key of a node of
\* the recency list is a key of the backing map.
C8_ListSubsetOfMap == (mu = "free") => ListKeySet(lru) \subseteq DOMAIN CurrentMap

\* C9: in every state, the recency list's size is at most maxSize and equals
\* the number of nodes reachable from head.
C9_ListLength ==
  /\ lru.size <= maxSize
  /\ lru.size = Cardinality(Reachable(lru))

\* C9 witness: a full list of at least two nodes, after an eviction.
C9_Witness ==
  /\ lru.size = maxSize
  /\ lru.size >= 2
  /\ hist.removed >= 1

\* C10: when a Clear called by a single caller has done its work, no key cached
\* before it is in the map, the recency list is empty and the counters are 0;
\* a Get that directly follows misses and a Stats that directly follows
\* returns (0, 0, 0).
C10_ClearResets ==
  \A t \in Threads :
    /\ pc[t] = "clear_unlock" =>
         /\ \A k \in hist.cleared : ~GetResult(CurrentMap, k).ok
         /\ lru.head = 0 /\ lru.tail = 0 /\ lru.size = 0
         /\ stats = ZeroStats
    /\ (hist.justCleared /\ pc[t] = "get_count") => ~ret[t].ok
    /\ (hist.justCleared /\ pc[t] = "stats_unlock") =>
         (ret[t].Hits = 0 /\ ret[t].Misses = 0 /\ ret[t].Evictions = 0)

\* C10 witness: right after a Clear that found entries and non-zero counters,
\* a Get asks for a key that was cached before it.
C10_Witness ==
  \E t \in Threads :
    /\ hist.justCleared
    /\ pc[t] = "get_count"
    /\ key[t] \in hist.cleared
    /\ hist.clearedAcc > 0

(* A Get of thread t is in progress. *)
InGet(t) == pc[t] \in {"get_load", "get_count"}

\* C11 (as claimed): a Get that returns a value returns an entry that was
\* stored after every Clear that has completed by then.
C11_NoEntryFromBeforeClear ==
  \A t \in Threads :
    (pc[t] = "get_count" /\ ret[t].ok) => hist.readStamp[t] >= hist.clears

\* C11 (amended): a Get that returns a value returns an entry that was stored
\* after every Clear that had completed when the Get was called.
C11_GetCalledAfterClear ==
  \A t \in Threads :
    (pc[t] = "get_count" /\ ret[t].ok) => hist.readStamp[t] >= hist.seen[t]

\* C11 witness: a Get called after a Clear completed hits an entry stored
\* after that Clear.
C11_Witness ==
  \E t \in Threads :
    /\ pc[t] = "get_count" /\ ret[t].ok
    /\ hist.seen[t] >= 1
    /\ hist.readStamp[t] >= 1

\* C12: while Clear has never been called and no Get is in progress,
\* Hits + Misses equals the number of Gets called.
C12_HitsPlusMisses ==
  (hist.noClear /\ \A t \in Threads : ~InGet(t))
    => stats.Hits + stats.Misses = hist.gets

\* C12 witness: three Gets, with hits and misses among them, have returned
\* and Clear was never called.
C12_Witness ==
  /\ hist.noClear /\ \A t \in Threads : ~InGet(t)
  /\ hist.gets >= 3
  /\ stats.Hits >= 1 /\ stats.Misses >= 1

\* C13 (as claimed): the triple Stats is about to return is one the three
\* counters held together at some instant since the call's first load.
C13_StatsSnapshot ==
  \A t \in Threads :
    pc[t] = "stats_unlock" =>
      [Hits |-> ret[t].Hits, Misses |-> ret[t].Misses,
       Evictions |-> ret[t].Evictions] \in hist.snaps

\* C14: a Year() call on a time of a non-CE era is about to return the time's
\* CE year plus the era's offset, and every entry of every live map of the
\* global cache holds its key's CE year plus its era's offset.
C14_YearTransparent ==
  /\ \A t \in Threads :
       (frame[t].fn = "Year" /\ frame[t].at = "done" /\ frame[t].era # CE)
         => frame[t].result = frame[t].ceYear + eraObj[frame[t].era].offset
  /\ \A a \in DOMAIN heap : \A k \in DOMAIN heap[a] :
       heap[a][k] = k.ceYear + eraObj[k.era].offset

\* C14 witness: after a Clear, a Year() call in BE returns a value it found
\* in the cache.
C14_Witness ==
  \E t \in Threads :
    /\ frame[t].fn = "Year" /\ frame[t].at = "done" /\ frame[t].hit
    /\ frame[t].era = BE
    /\ frame[t].result = frame[t].ceYear + BEOffset
    /\ hist.clears >= 1

(* Thread t is in the scan loop of Replace or past it. *)
Scanning(t) == rcall[t].at \in {"loop", "put", "give", "ret"} /\ rcall[t].sb # 0

(* The replacements that match s at offset i. *)
Matching(reps, s, i) == {j \in 1..Len(reps) : Matches(reps[j], s, i)}

\* C15: whatever the order in which NewStringReplacer visited the map, the
\* replacements are the same, and every match Replace has applied is of a
\* pattern at least as long as every pattern of the table that matches the
\* input at that position.
C15_LongestMatch ==
  /\ \A o \in Orders(DOMAIN sr.map) : NewStringReplacer(sr.map, o) = sr.replacements
  /\ \A t \in Threads : Scanning(t) =>
       \A p \in 1..Len(rcall[t].spans) :
         LET sp == rcall[t].spans[p] IN
         \A j \in Matching(sr.replacements, rcall[t].s, sp.from) :
           /\ sp.rep # 0
           /\ sr.replacements[sp.rep].len >= sr.replacements[j].len

\* C15 witness: two patterns of different lengths matched at one position and
\* the replacement of the longer one was written.
C15_Witness ==
  \E t \in Threads :
    /\ Scanning(t)
    /\ \E p \in 1..Len(rcall[t].spans) :
         LET sp == rcall[t].spans[p] IN
         /\ sp.rep # 0
         /\ \E j \in Matching(sr.replacements, rcall[t].s, sp.from) :
              /\ sr.replacements[j].len < sp.len
              /\ sr.replacements[j].to # sp.out

\* C16 (as claimed): every iteration of the scan loop of Replace leaves the
\* scan position greater than it found it, for every replacement map.
C16_ScanAdvances ==
  [][\A t \in Threads :
       (rcall[t].at = "loop" /\ rcall'[t].at = "loop" /\ rcall'[t].n > rcall[t].n)
         => rcall'[t].i > rcall[t].i]_vars

(* The texts the iterations wrote, in order. *)
RECURSIVE Written(_)
Written(spans) == IF spans = <<>> THEN <<>> ELSE Head(spans).out \o Written(Tail(spans))

(* The number of input bytes the iterations consumed. *)
RECURSIVE Consumed(_)
Consumed(spans) == IF spans = <<>> THEN 0 ELSE Head(spans).len + Consumed(Tail(spans))

\* C17: in every Replace call, each iteration consumes the input from where
\* the one before stopped, as a match of a pattern of the table or as one
\* copied byte; the builder holds the texts written for them in order; and
\* when the call returns, the consumed lengths add up to the input length and
\* the result is that concatenation.
C17_Totality ==
  \A t \in Threads : Scanning(t) =>
    LET c == rcall[t] IN
    /\ \A p \in 1..Len(c.spans) :
         LET sp == c.spans[p] IN
         /\ sp.from = Consumed(SubSeq(c.spans, 1, p - 1))
         /\ sp.from + sp.len <= Len(c.s)
         /\ IF sp.rep # 0
            THEN /\ sp.len = sr.replacements[sp.rep].len
                 /\ SubSeq(c.s, sp.from + 1, sp.from + sp.len) = sr.replacements[sp.rep].from
                 /\ sp.out = sr.replacements[sp.rep].to
            ELSE /\ sp.len = 1
                 /\ sp.out = <<c.s[sp.from + 1]>>
    /\ c.i = Consumed(c.spans)
    /\ c.at = "loop" => builders[c.sb].buf = Written(c.spans)
    /\ c.at # "loop" => (Consumed(c.spans) = Len(c.s) /\ c.result = Written(c.spans))

\* C17 witness: a Replace call is about to return after it both applied a
\* match and copied a byte.
C17_Witness ==
  \E t \in Threads :
    /\ Scanning(t) /\ rcall[t].at = "ret"
    /\ \E p, q \in 1..Len(rcall[t].spans) :
         rcall[t].spans[p].rep # 0 /\ rcall[t].spans[q].rep = 0

(* from occurs as a substring of s. *)
Occurs(from, s) ==
  \E i \in 0..(Len(s) - Len(from)) : SubSeq(s, i + 1, i + Len(from)) = from

(* Thread t's Replace has its result. *)
HasResult(t) == rcall[t].at \in {"put", "give", "ret"}

\* C18: the result of Replace(s) is s when no pattern of the table occurs in
\* s, and so when the table is empty.
C18_IdentityOnNoMatch ==
  \A t \in Threads :
    (HasResult(t) /\ \A j \in 1..Len(sr.replacements) :
                       ~Occurs(sr.replacements[j].from, rcall[t].s))
      => rcall[t].result = rcall[t].s

\* C18 witness: Replace is about to return a non-empty input in which none of
\* the patterns of a non-empty table occurs.
C18_Witness ==
  \E t \in Threads :
    /\ rcall[t].at = "ret"
    /\ Len(sr.replacements) > 0
    /\ rcall[t].s # <<>>
    /\ \A j \in 1..Len(sr.replacements) : ~Occurs(sr.replacements[j].from, rcall[t].s)
    /\ rcall[t].result = rcall[t].s

(* What Replace(s) writes from offset i on when it runs alone, in at most *)
(* fuel iterations.                                                        *)
RECURSIVE ScanAlone(_, _, _, _)
ScanAlone(reps, s, i, fuel) ==
  IF i >= Len(s) \/ fuel = 0 THEN <<>>
  ELSE LET j == FirstMatch(reps, s, i) IN
       IF j # 0 THEN reps[j].to \o ScanAlone(reps, s, i + reps[j].len, fuel - 1)
                ELSE <<s[i + 1]>> \o ScanAlone(reps, s, i + 1, fuel - 1)

(* What Replace(s) returns when it runs alone and returns. *)
ReplaceAlone(reps, s) ==
  IF HasNoReplacements(reps) THEN s ELSE ScanAlone(reps, s, 0, Len(s))

\* C19: under every interleaving of Replace calls on one StringReplacer, the
\* result of each call is what the call returns when it runs alone, and no
\* step changes the replacer.
C19_NoInterference ==
  /\ [](\A t \in Threads :
          HasResult(t) => rcall[t].result = ReplaceAlone(sr.replacements, rcall[t].s))
  /\ [][sr' = sr]_vars

\* C19 witness: a call has its result from a builder that the other call, not
\* yet returned, used before it, and their results differ.
C19_Witness ==
  \E a, b \in Threads :
    /\ a # b
    /\ rcall[a].at = "ret" /\ HasResult(b)
    /\ rcall[a].sb # 0 /\ rcall[a].sb = rcall[b].sb
    /\ rcall[a].result # rcall[b].result
    /\ rcall[a].result # rcall[a].s

\* C20: with an empty table, Replace goes straight to its return with its
\* input as the result, and the pool's counters and free list and the
\* builders are as NewBuilderPool left them.
C20_EmptyTableFrame ==
  sr.replacements = <<>> =>
    /\ pool = NewBuilderPool
    /\ builders = <<>>
    /\ \A t \in Threads :
         /\ rcall[t].at \in {"none", "ret"}
         /\ rcall[t].at = "ret" => rcall[t].result = rcall[t].s

\* C20 witness: with an empty table, the second Replace call is about to
\* return its non-empty input.
C20_Witness ==
  /\ sr.replacements = <<>>
  /\ ops = 2
  /\ \E t \in Threads :
       rcall[t].at = "ret" /\ rcall[t].s # <<>> /\ rcall[t].result = rcall[t].s

\* C21: for every replacer and every input s, what ReplaceAll(s) returns is
\* what Replace(s) returns: the result of a ReplaceAll call is the string that
\* Replace computes from the replacer's table and s.
C21_ReplaceAllIsReplace ==
  \A t \in Threads :
    (frame[t].fn = "ReplaceAll" /\ frame[t].at = "done") =>
      frame[t].result = ReplaceAlone(sr.replacements, frame[t].s)

\* C21 witness: a ReplaceAll call, made after a Replace call, is about to
\* return a string that differs from its input.
C21_Witness ==
  \E t \in Threads :
    /\ frame[t].fn = "ReplaceAll" /\ frame[t].at = "done"
    /\ frame[t].result # frame[t].s
    /\ ops = 2

(* Get has just returned the builder to caller t, who has not written yet. *)
JustGot(t) == rcall[t].at = "held" /\ rcall[t].n = 0

\* C22: after any sequence of Get and Put calls, the builder Get returns
\* has length 0, whatever it held when it was Put.
C22_GetReturnsEmpty ==
  \A t \in Threads : JustGot(t) => builders[rcall[t].sb].buf = <<>>

\* C22 witness: Get has returned an empty builder that held bytes when Get
\* took it from the pool.
C22_Witness ==
  \E t \in Threads :
    JustGot(t) /\ rcall[t].old # <<>> /\ builders[rcall[t].sb].buf = <<>>

\* C23: for every capacityHint, 0 and values below 256 included, the builder
\* Get returns, new or reused, has capacity at least 256 and at least
\* capacityHint.
C23_GetCapacity ==
  \A t \in Threads :
    JustGot(t) =>
      /\ builders[rcall[t].sb].cap >= DefaultBuilderCapacity
      /\ builders[rcall[t].sb].cap >= rcall[t].hint

\* C24: no builder of capacity above 4096 is in the pool's free list; a Put
\* of a builder of capacity above 4096 leaves the free list as it is, and a
\* Put of a builder of capacity at most 4096 adds it to the free list; the
\* builder Get returns comes from the free list or is new, so it is none that
\* a Put discarded.
C24_RetentionBound ==
  /\ [](\A j \in 1..Len(pool.free) : builders[pool.free[j]].cap <= MaxBuilderCapacity)
  /\ [][\A t \in Threads :
          /\ (rcall[t].at = "give" /\ rcall'[t].at = "ret") =>
                pool'.free = IF builders[rcall[t].sb].cap > MaxBuilderCapacity
                             THEN pool.free
                             ELSE Append(pool.free, rcall[t].sb)
          /\ (rcall[t].at = "take" /\ rcall'[t].at = "held") =>
                \/ \E j \in 1..Len(pool.free) : rcall'[t].sb = pool.free[j]
                \/ rcall'[t].sb = Len(builders) + 1]_vars

(* The builders that exist, are in no caller's hands and not in the pool. *)
Discarded ==
  {b \in 1..Len(builders) :
     /\ \A t \in Threads : rcall[t].at = "none" \/ rcall[t].sb # b
     /\ \A j \in 1..Len(pool.free) : pool.free[j] # b}

\* C24 witness: Get has returned a builder after a builder of capacity above
\* 4096 was discarded by Put, and a builder is in the free list.
C24_Witness ==
  /\ \E b \in Discarded : builders[b].cap > MaxBuilderCapacity
  /\ pool.free # <<>>
  /\ \E t \in Threads : JustGot(t) /\ rcall[t].sb \notin Discarded

\* C30: Put(nil) changes neither the counters Gets, Puts and Allocates nor
\* the free list nor any builder, and returns; every Put of a builder
\* increases Puts by exactly 1, and every Get increases Gets by exactly 1.
C30_PutNilNoOp ==
  [][\A t \in Threads :
       /\ (rcall[t].at = "put" /\ rcall[t].sb = 0 /\ rcall'[t] # rcall[t]) =>
             pool' = pool /\ builders' = builders /\ rcall'[t].at = "ret"
       /\ (rcall[t].at = "put" /\ rcall[t].sb # 0 /\ rcall'[t] # rcall[t]) =>
             pool'.Puts = pool.Puts + 1 /\ rcall'[t].at = "give"
       /\ (rcall[t].at = "give" /\ rcall'[t] # rcall[t]) =>
             pool'.Puts = pool.Puts /\ rcall'[t].at = "ret"
       /\ (rcall[t].at = "get" /\ rcall'[t] # rcall[t]) =>
             pool'.Gets = pool.Gets + 1 /\ rcall'[t].at = "take"
       /\ (rcall[t].at = "take" /\ rcall'[t] # rcall[t]) =>
             pool'.Gets = pool.Gets /\ rcall'[t].at = "held"]_vars

\* C30 witness: Put(nil) is about to return after a Get and a Put of a
\* builder have been counted, with the builder in the free list.
C30_Witness ==
  /\ pool.Gets > 0 /\ pool.Puts > 0 /\ pool.free # <<>>
  /\ \E t \in Threads : rcall[t].at = "ret" /\ rcall[t].sb = 0

(* Caller t is in a convenience operation of the RegexPool. *)
InConvenience(t) == frame[t].fn \in RegexOps

\* C25: the matchers that convenience operations have checked out and not
\* put back are those of the operations in progress between their Get and
\* their Put: whenever no convenience operation is in progress there is
\* none, also after an operation or a callback has panicked.
C25_ConvenienceReturnsMatcher ==
  /\ regexPool # NoRegexPool =>
       regexPool.out = {frame[t].re : t \in {u \in Threads :
                          InConvenience(u) /\ frame[u].at \in {"run", "put"}}}
  /\ (\A t \in Threads : ~InConvenience(t)) =>
       (regexPool = NoRegexPool \/ regexPool.out = {})

\* C25 witness: a convenience operation that panicked has been left, no
\* convenience operation is in progress, and its matcher is in the pool.
C25_Witness ==
  /\ \A t \in Threads : ~InConvenience(t)
  /\ regexPool # NoRegexPool /\ regexPool.out = {} /\ regexPool.free # {}
  /\ regexPool.panics

(* Caller t is in a call on the RegexPool. *)
OnRegexPool(t) == frame[t].fn \in RegexOps \cup {"Get", "Put"}

C27_HitRateRange ==
  \A t \in Threads :
    pc[t] = "hitrate_unlock" =>
      LET r == ret[t].rate
          total == ret[t].Hits + ret[t].Misses
      IN /\ r.den > 0 /\ 0 <= r.num /\ r.num <= r.den
         /\ total = 0 => r.num = 0
         /\ total > 0 => r.num * total = ret[t].Hits * r.den
         /\ hist.snaps = {stats} =>
               /\ ret[t].Hits = stats.Hits /\ ret[t].Misses = stats.Misses
               /\ stats.Hits + stats.Misses = 0 => r.num = 0
               /\ stats.Hits + stats.Misses > 0 =>
                     r.num * (stats.Hits + stats.Misses) = stats.Hits * r.den
         /\ (hist.noClear /\ hist.gets = 0) => r.num = 0
         /\ hist.justCleared => r.num = 0

\* C27 as amended: the same, but the rate is 0 right after a Clear only when
\* no Get was in progress during that Clear.
C27_HitRateRangeQuietClear ==
  \A t \in Threads :
    pc[t] = "hitrate_unlock" =>
      LET r == ret[t].rate
          total == ret[t].Hits + ret[t].Misses
      IN /\ r.den > 0 /\ 0 <= r.num /\ r.num <= r.den
         /\ total = 0 => r.num = 0
         /\ total > 0 => r.num * total = ret[t].Hits * r.den
         /\ hist.snaps = {stats} =>
               /\ ret[t].Hits = stats.Hits /\ ret[t].Misses = stats.Misses
               /\ stats.Hits + stats.Misses = 0 => r.num = 0
               /\ stats.Hits + stats.Misses > 0 =>
                     r.num * (stats.Hits + stats.Misses) = stats.Hits * r.den
         /\ (hist.noClear /\ hist.gets = 0) => r.num = 0
         /\ (hist.justCleared /\ hist.clearAlone) => r.num = 0

\* C27 witness: HitRate is about to return a rate strictly between 0 and 1
\* while a Get of another thread was counted during the call.
C27_Witness ==
  \E t \in Threads :
    /\ pc[t] = "hitrate_unlock"
    /\ 0 < ret[t].rate.num /\ ret[t].rate.num < ret[t].rate.den
    /\ hist.snaps # {stats}

(* The mutex is held by a thread in the middle of Set, Clear, Stats or HitRate. *)
MutexHeld == mu # "free" /\ pc[mu] # "idle"

\* C29: no step of Get waits for the mutex: a thread that may call Get can
\* take Get's first step, and a thread in Get its next step, in every state,
\* whoever holds the mutex.
C29_GetNeverWaits ==
  \A t \in Threads :
    /\ (Idle(t) /\ ops < MaxOps) => ENABLED (\E k \in Keys : GetLoadPtr(t, k))
    /\ pc[t] = "get_load" => ENABLED GetLoad(t)
    /\ pc[t] = "get_count" => ENABLED GetCount(t)

\* C29 witness: a Get called while another thread held the mutex has found
\* its entry and can return, and the mutex was held at each of its steps and
\* is still held.
C29_Witness ==
  \E t \in Threads :
    /\ pc[t] = "get_count" /\ ret[t].ok
    /\ hist.underLock[t] /\ MutexHeld /\ mu # t
    /\ ENABLED GetCount(t)

\* C28: the capacity of the cache NewEraCache(maxSize) makes is 1024 when
\* maxSize <= 0 and maxSize otherwise, and no step of Get, Set, Clear, Stats
\* or HitRate changes it.
C28_CapacityFixed ==
  /\ [](maxSize = IF hist.maxSizeArg <= 0 THEN DefaultMaxCacheSize
                                           ELSE hist.maxSizeArg)
  /\ [][maxSize' = maxSize]_vars

\* C28 witness: a cache made with a negative argument has capacity 1024
\* after a Set, a hit of Get and a Clear have completed.
C28_Witness ==
  /\ hist.maxSizeArg < 0 /\ maxSize = DefaultMaxCacheSize
  /\ hist.justCleared /\ hist.cleared # {} /\ stats = ZeroStats
  /\ hist.clearedAcc > 0

(* C31: a RegisterEra for a name already registered returns the Era the    *)
(* first registration of the name returned and adds nothing; the registry  *)
(* keeps that Era for the name, with the offset the first registration was *)
(* given; and GetEra of the name returns that Era, however the calls       *)
(* interleave.                                                             *)
C31_FirstRegistrationKept ==
  /\ \A n \in Names \cup OptionNames :
       hist.firstReg[n].addr # 0 =>
         /\ n \in DOMAIN eras
         /\ eras[n] = hist.firstReg[n].addr
         /\ eraObj[eras[n]] = [name |-> n, offset |-> hist.firstReg[n].offset]
  /\ \A t \in Threads :
       (/\ frame[t].fn \in {"RegisterEra", "GetEra"}
        /\ frame[t].at = "unlock"
        /\ hist.firstReg[frame[t].name].addr # 0)
       => /\ frame[t].result = hist.firstReg[frame[t].name].addr
          /\ frame[t].fn = "RegisterEra" => ~frame[t].added

(* A RegisterEra of "X" with another offset than the first one's is about  *)
(* to return the Era of the first one.                                     *)
C31_Witness ==
  \E t \in Threads :
    /\ frame[t].fn = "RegisterEra" /\ frame[t].at = "unlock"
    /\ frame[t].name = "X"
    /\ hist.firstReg["X"].addr # 0
    /\ frame[t].offset # hist.firstReg["X"].offset
    /\ frame[t].result = hist.firstReg["X"].addr

(* C32 (as claimed): Set evicts the least-recently-used entry exactly when *)
(* the tracked size after its insertion meets or exceeds the capacity.     *)
C32_EvictAfterInsert ==
  [][\A t \in Threads :
       (pc[t] = "set_evict" /\ pc'[t] = "set_store")
       => ((lru'.size < lru.size) <=> (lru.size + 1 >= maxSize))]_vars

(* C32 (amended): Set decides before it inserts: it unlinks the            *)
(* least-recently-used node exactly when the tracked size before the       *)
(* insertion meets or exceeds the capacity, so the first maxSize distinct  *)
(* inserts into an empty cache unlink nothing and each later one unlinks   *)
(* one node.                                                               *)
C32_EvictBeforeInsert ==
  /\ []((hist.fresh /\ mu = "free") =>
         hist.removed = IF Len(hist.setLog) > maxSize
                        THEN Len(hist.setLog) - maxSize ELSE 0)
  /\ [][\A t \in Threads :
         (pc[t] = "set_evict" /\ pc'[t] = "set_store")
         => ((lru'.size < lru.size) <=> (lru.size >= maxSize))]_vars

(* The MaxCap-th distinct insert into an empty cache of capacity MaxCap    *)
(* has returned and nothing was unlinked.                                  *)
C32_Witness ==
  /\ maxSize = MaxCap
  /\ hist.fresh /\ mu = "free"
  /\ Len(hist.setLog) = maxSize
  /\ lru.size = maxSize
  /\ hist.removed = 0
  /\ stats.Evictions = 0

(* C33 (as claimed): in every snapshot Stats returns, Allocates <= Gets,   *)
(* and the snapshot's HitRate is in [0, 1] and is 0 when Gets is 0.        *)
C33_PoolHitRateRange ==
  \A t \in Threads :
    (rcall[t].at = "stats_ret") =>
      LET r == rcall[t].rate IN
      /\ rcall[t].Allocates <= rcall[t].Gets
      /\ r.den > 0 /\ 0 <= r.num /\ r.num <= r.den
      /\ rcall[t].Gets = 0 => r.num = 0

(* A call of RegisterEra or RegisterEraWithOptions. *)
Registering(f) == f.fn \in {"RegisterEra", "RegisterEraWithOptions"}

(* The thread takes a step of such a call. *)
RegisterStep(t) ==
  /\ Registering(frame[t]) \/ Registering(frame'[t])
  /\ frame'[t] # frame[t] \/ pc'[t] # pc[t]

(* The call the step belongs to. *)
RegisterFrame(t) == IF Registering(frame[t]) THEN frame[t] ELSE frame'[t]

CacheUnchanged == UNCHANGED <<cache, heap, lru, maxSize, stats>>

CacheCleared ==
  /\ CurrentMap = EmptyMap
  /\ lru.size = 0
  /\ stats = ZeroStats

(* C34 (as claimed): a call for a name not yet registered returns with the *)
(* cache empty and its three counters 0; no step of a call for a name      *)
(* already registered, or for the empty name, changes the cache or a       *)
(* counter.                                                                *)
C34_ClearOnNewName ==
  /\ [](\A t \in Threads :
          (Registering(frame[t]) /\ frame[t].at = "unlock" /\ ~frame[t].known)
          => CacheCleared)
  /\ [][\A t \in Threads :
          (RegisterStep(t)
           /\ (RegisterFrame(t).known \/ RegisterFrame(t).name = ""))
          => CacheUnchanged]_vars

(* C34 (amended): the same, but of the calls with the empty name only      *)
(* those of RegisterEraWithOptions leave the cache alone: to RegisterEra   *)
(* the empty name is a name like any other.                                *)
C34_ClearOnNewNameOrEmpty ==
  /\ [](\A t \in Threads :
          (Registering(frame[t]) /\ frame[t].at = "unlock" /\ ~frame[t].known)
          => CacheCleared)
  /\ [][\A t \in Threads :
          (RegisterStep(t)
           /\ \/ RegisterFrame(t).known
              \/ /\ RegisterFrame(t).fn = "RegisterEraWithOptions"
                 /\ RegisterFrame(t).name = "")
          => CacheUnchanged]_vars

(* A registration of a new name is about to return: the cache held entries *)
(* when its Clear was called and is empty now.                             *)
C34_Witness ==
  \E t \in Threads :
    /\ Registering(frame[t]) /\ frame[t].at = "unlock"
    /\ ~frame[t].known /\ frame[t].added
    /\ hist.justCleared /\ hist.cleared # {} /\ hist.clearedAcc > 0
    /\ CacheCleared

(* C35 (as claimed): replaceYearInFormatted writes an era year below 1000  *)
(* as 4 digits padded with zeros on the left, and a short year (eraYear    *)
(* mod 100) below 10 as 2 digits padded with a zero on the left, as        *)
(* %04d and %02d do.                                                       *)
C35_YearPadding ==
  \A t \in Threads :
    (rcall[t].at # "none" /\ rcall[t].fn = "replaceYearInFormatted"
     /\ rcall[t].eraYear >= 0)
    => /\ rcall[t].yearStr = ZeroPadded(rcall[t].eraYear, 4)
       /\ rcall[t].shortYearStr = ZeroPadded(rcall[t].eraYear % 100, 2)

(* The elements of a layout that write the year. *)
YearFields == {"2006", "06"}

(* out is what the layout writes for tm, but for the digits written for    *)
(* the year fields, which may be any.                                      *)
RECURSIVE FieldsKept(_, _, _)
FieldsKept(out, tm, layout) ==
  IF layout = <<>> THEN out = <<>>
  ELSE IF Head(layout) \in YearFields
  THEN \E k \in 0..Len(out) :
         /\ \A i \in 1..k : IsDigit(out[i])
         /\ FieldsKept(SubSeq(out, k + 1, Len(out)), tm, Tail(layout))
  ELSE LET field == LayoutField(tm, Head(layout)) IN
       /\ Len(out) >= Len(field)
       /\ SubSeq(out, 1, Len(field)) = field
       /\ FieldsKept(SubSeq(out, Len(field) + 1, Len(out)), tm, Tail(layout))

(* C36 (as claimed): in what Format returns for a time of any era, every   *)
(* field of the layout other than the year fields is written as it is for  *)
(* the CE time, whatever the date, the time of day and the reference date. *)
C36_OnlyYearChanges ==
  \A t \in Threads :
    (frame[t].fn = "Format" /\ frame[t].at = "done")
    => FieldsKept(frame[t].result, frame[t].time, frame[t].layout)

(* C37: Replace matches the patterns against its input only, from left to  *)
(* right: each iteration starts in the input where the one before stopped, *)
(* a match applied is a match in the input at that position and writes its *)
(* replacement as it is, a byte is copied only where no pattern matches,   *)
(* and the result is the texts written, in order. So a replacement text is *)
(* never matched again, and a match at an earlier position wins over a     *)
(* longer pattern that begins inside it.                                   *)
C37_LeftmostNoRescan ==
  \A t \in Threads : Scanning(t) =>
    LET c == rcall[t] IN
    /\ \A p \in 1..Len(c.spans) :
         LET sp == c.spans[p] IN
         /\ sp.from = IF p = 1 THEN 0 ELSE c.spans[p - 1].from + c.spans[p - 1].len
         /\ sp.rep # 0 =>
              /\ Matches(sr.replacements[sp.rep], c.s, sp.from)
              /\ sp.len = sr.replacements[sp.rep].len
              /\ sp.out = sr.map[SubSeq(c.s, sp.from + 1, sp.from + sp.len)]
         /\ sp.rep = 0 =>
              /\ \A j \in 1..Len(sr.replacements) :
                   ~Matches(sr.replacements[j], c.s, sp.from)
              /\ sp.len = 1
              /\ sp.out = <<c.s[sp.from + 1]>>
    /\ HasResult(t) => c.result = Written(c.spans)

(* Replace is about to return after it applied a match inside which, at a  *)
(* later position, a longer pattern matches the input, and after it wrote  *)
(* a replacement text that a pattern of the table occurs in.               *)
C37_Witness ==
  \E t \in Threads :
    /\ Scanning(t) /\ rcall[t].at = "ret"
    /\ \E p \in 1..Len(rcall[t].spans) :
         LET sp == rcall[t].spans[p] IN
         /\ sp.rep # 0
         /\ \E j \in 1..Len(sr.replacements) :
              /\ sr.replacements[j].len > sp.len
              /\ \E k \in (sp.from + 1)..(sp.from + sp.len - 1) :
                   Matches(sr.replacements[j], rcall[t].s, k)
    /\ \E p \in 1..Len(rcall[t].spans), j \in 1..Len(sr.replacements) :
         /\ rcall[t].spans[p].rep # 0
         /\ Occurs(sr.replacements[j].from, rcall[t].spans[p].out)

(* The bytes the string a call made with String() holds now. The string    *)
(* lies in the array the builder had then: when the builder still writes   *)
(* to that array, the bytes it holds are the string's bytes.               *)
StringNow(c) ==
  IF c.arr = 0 \/ ArrayOf(builders[c.sb]) # c.arr
  THEN c.result
  ELSE [k \in 1..Len(c.result) |->
          IF k <= Len(builders[c.sb].buf) THEN builders[c.sb].buf[k]
          ELSE c.result[k]]

(* Thread t has made the string it returns. *)
Returning(t) ==
  /\ rcall[t] # NoCall
  /\ rcall[t].fn \in {"Replace", "replaceYearInFormatted"}
  /\ rcall[t].at \in {"put", "give", "ret"}

(* C38: from the moment Replace or replaceYearInFormatted has made the     *)
(* string it returns, the string holds the bytes it was made with,         *)
(* whatever the callers that get its builder from the pool write.          *)
C38_ReturnedStringKept ==
  \A t \in Threads : Returning(t) => StringNow(rcall[t]) = rcall[t].result

(* A caller has its string in hand and has put its builder back; another   *)
(* caller got that builder and wrote to it bytes other than the string's.  *)
C38_Witness ==
  \E t, u \in Threads :
    /\ t # u
    /\ Returning(t) /\ rcall[t].at = "ret" /\ rcall[t].arr # 0
    /\ rcall[u] # NoCall /\ rcall[u].sb = rcall[t].sb
    /\ rcall[u].old = rcall[t].result
    /\ \E k \in 1..Len(rcall[t].result) :
         /\ k <= Len(builders[rcall[u].sb].buf)
         /\ builders[rcall[u].sb].buf[k] # rcall[t].result[k]

(* Thread t is inside a call of package gotime. *)
Busy(t) == pc[t] # "idle" \/ frame[t] # NoFrame \/ rcall[t] # NoCall

(* Thread t holds ec.mu, or erasMu for writing or for reading. *)
HoldsLock(t) == mu = t \/ erasMu = t \/ t \in erasReaders

(* The calls the bounds MaxOps and MaxFormats allow have not been used up. *)
CallsLeft == ops < MaxOps /\ pool.Gets < MaxFormats

(* A thread takes erasMu, for writing or for reading. *)
TakesErasMu(t) ==
  \/ erasMu # t /\ erasMu' = t
  \/ t \notin erasReaders /\ t \in erasReaders'

(* C39: callers of Year, Format, ClearEraCache, EraCacheStats,             *)
(* EraCacheHitRate, RegisterEra and GetEra never wait forever. A           *)
(* thread outside a call holds no lock; erasMu is never taken by a thread  *)
(* that holds ec.mu; a thread inside a call can take a step, or a thread   *)
(* holding a lock can; and under fair scheduling every call that was       *)
(* started returns (as long as the model's bounds on the calls are not     *)
(* used up, which stop a thread before the method it is about to call).    *)
C39_NoThreadWaitsForever ==
  /\ [](\A t \in Threads : ~Busy(t) => ~HoldsLock(t))
  /\ [][\A t \in Threads : TakesErasMu(t) => mu # t /\ mu' # t]_vars
  /\ [](\A t \in Threads : Busy(t) /\ CallsLeft =>
          \/ ENABLED StepLocks(t)
          \/ \E u \in Threads \ {t} : HoldsLock(u) /\ ENABLED StepLocks(u))
  /\ \A t \in Threads : Busy(t) ~> (~Busy(t) \/ ~CallsLeft)

(* RegisterEra holds erasMu and waits for ec.mu, which a thread in Set     *)
(* holds.                                                                  *)
C39_Witness ==
  \E t, u \in Threads :
    /\ t # u /\ CallsLeft
    /\ erasMu = t /\ frame[t].fn = "RegisterEra" /\ frame[t].at = "clear"
    /\ ~ENABLED StepLocks(t)
    /\ mu = u /\ frame[u].fn = "Year"

====
